---- MODULE Spec2Model ----
(***************************************************************************)
(* slowjsonmutator-go: path-addressed Set / Remove mutations applied to    *)
(* untyped JSON data (src/main.go).                                        *)
(*                                                                         *)
(* Go strings are modelled as sequences of one-character strings, Go maps  *)
(* and slice backing arrays as objects of a heap (maps and slices are      *)
(* references in Go), nil-able pointers as sequences of length 0 or 1.     *)
(***************************************************************************)
EXTENDS Integers, Sequences, FiniteSets, TLC

VARIABLES
    \* parseJSONPath, run one loop iteration at a time
    path,           \* the argument of parseJSONPath
    toParse,        \* the text still to segment
    pathSegments,   \* the segments read so far
    ppc,            \* "idle", "check", "loop", "done"
    presult,        \* what parseJSONPath returned: [segments, err]
    \* Modify
    heap,           \* the maps and backing arrays allocated so far
    input,          \* the input document of Modify
    mods,           \* the modifications handed to Modify
    untypedParsed,  \* Modify's local variable: the root of the data
    i,              \* the number of modifications the loop of Modify has run
    pc,             \* "idle", "start", "loop", "returned", "crashed"
    result,         \* what Modify returned: [output, err], and the line of
                    \* the return statement that returned it
    \* the build
    release         \* the releases of the compiler that the program can have
                    \* been built with, given what it has done so far

parseVars == <<path, toParse, pathSegments, ppc, presult>>
modifyVars == <<heap, input, mods, untypedParsed, i, pc, result>>
vars == <<path, toParse, pathSegments, ppc, presult,
          heap, input, mods, untypedParsed, i, pc, result, release>>

(***************************************************************************)
(* Bounds of the model.                                                    *)
(***************************************************************************)
\* the longest text, in characters, among the exhaustively enumerated paths
MaxLen == 5
\* the most modifications in one call of Modify
MaxMods == 2

(***************************************************************************)
(* Strings and errors.                                                     *)
(***************************************************************************)
\* s[a:b] of Go, a and b counted from 0
Slice(s, a, b) == SubSeq(s, a + 1, b)

\* s[a:] of Go
SliceFrom(s, a) == SubSeq(s, a + 1, Len(s))

RECURSIVE IndexFrom(_, _, _)
IndexFrom(s, c, k) ==
    IF k > Len(s) THEN -1
    ELSE IF s[k] = c THEN k - 1
    ELSE IndexFrom(s, c, k + 1)

\* strings.Index(s, c) for a one-character c: the first position, from 0, or -1
StringsIndex(s, c) == IndexFrom(s, c, 1)

\* a nil error, and an error: the format of its message, and in arg the text
\* that the format writes with %q, no text when the format has no %q.  What
\* %q writes depends on the release that built the program: ErrorText gives
\* the message of an error in a release.
NoErr == [msg |-> "", arg |-> <<>>]
NewError(m) == [msg |-> m, arg |-> <<>>]

\* fmt.Errorf(prefix + "%w", e)
Wrap(prefix, e) == [msg |-> prefix \o e.msg, arg |-> e.arg]

LowerHex == <<"0", "1", "2", "3", "4", "5", "6", "7",
              "8", "9", "a", "b", "c", "d", "e", "f">>

\* the name of a byte that has no one-character string: x and its two
\* hexadecimal digits
RawByte(n) == "x" \o LowerHex[(n \div 16) + 1] \o LowerHex[(n % 16) + 1]

\* the printable characters of ASCII, from the space (32) to the tilde (126)
Printable ==
    <<" ", "!", "\"", "#", "$", "%", "&", "'", "(", ")", "*", "+", ",", "-",
      ".", "/", "0", "1", "2", "3", "4", "5", "6", "7", "8", "9", ":", ";",
      "<", "=", ">", "?", "@", "A", "B", "C", "D", "E", "F", "G", "H", "I",
      "J", "K", "L", "M", "N", "O", "P", "Q", "R", "S", "T", "U", "V", "W",
      "X", "Y", "Z", "[", "\\", "]", "^", "_", RawByte(96), "a", "b", "c", "d", "e",
      "f", "g", "h", "i", "j", "k", "l", "m", "n", "o", "p", "q", "r", "s",
      "t", "u", "v", "w", "x", "y", "z", "{", "|", "}", "~">>
PrintableChars == {Printable[k] : k \in 1..Len(Printable)}

\* the element of a text that stands for the byte n
Byte(n) ==
    CASE 32 <= n /\ n <= 126 -> Printable[n - 31]
      [] n = 9 -> "\t"
      [] n = 10 -> "\n"
      [] n = 12 -> "\f"
      [] n = 13 -> "\r"
      [] OTHER -> RawByte(n)

\* the byte that each element of a text stands for
ByteCodes ==
    [c \in {Byte(n) : n \in 0..255} |-> CHOOSE n \in 0..255 : Byte(n) = c]

\* the byte an element of a text stands for
Code(c) == ByteCodes[c]

\* utf8.RuneError, U+FFFD
RuneError == 65533

\* whether the k-th byte of text s is there and is from lo to hi
ByteIn(s, k, lo, hi) == Len(s) >= k /\ lo <= Code(s[k]) /\ Code(s[k]) <= hi

\* the six bits that the k-th byte of s, a continuation byte, carries
Bits(s, k) == Code(s[k]) - 128

\* utf8.DecodeRuneInString(s) for a text s whose first byte is b:
\* [rune, width]; RuneError with width 1 when s begins with no valid encoding
DecodeFrom(s, b) ==
    CASE b < 128 -> [rune |-> b, width |-> 1]
      [] /\ 194 <= b /\ b <= 223
         /\ ByteIn(s, 2, 128, 191) ->
            [rune |-> (b - 192) * 64 + Bits(s, 2), width |-> 2]
      [] /\ 224 <= b /\ b <= 239
         /\ ByteIn(s, 2, IF b = 224 THEN 160 ELSE 128,
                         IF b = 237 THEN 159 ELSE 191)
         /\ ByteIn(s, 3, 128, 191) ->
            [rune |-> (b - 224) * 4096 + Bits(s, 2) * 64 + Bits(s, 3),
             width |-> 3]
      [] /\ 240 <= b /\ b <= 244
         /\ ByteIn(s, 2, IF b = 240 THEN 144 ELSE 128,
                         IF b = 244 THEN 143 ELSE 191)
         /\ ByteIn(s, 3, 128, 191)
         /\ ByteIn(s, 4, 128, 191) ->
            [rune |-> (b - 240) * 262144 + Bits(s, 2) * 4096
                      + Bits(s, 3) * 64 + Bits(s, 4),
             width |-> 4]
      [] OTHER -> [rune |-> RuneError, width |-> 1]

\* utf8.DecodeRuneInString(s) for a text s that is not empty
DecodeRune(s) == DecodeFrom(s, Code(s[1]))

\* the releases of the gc compiler that build the program, each by its minor
\* number: Go 1.13, the first that knows the %w verb of lines 205 and 220, to
\* Go 1.21, and 22 for Go 1.22 and the releases after it, which do what
\* Go 1.22 does.  The program is built for a machine of 64-bit words.
Releases == 13..22

\* the runes above U+00FF that are letters, marks, numbers, punctuation or
\* symbols in Unicode 11.0, as ranges: the printable runes of the tables of
\* Go 1.13 (strconv/isprint.go, made from the tables of package unicode)
PrintRanges11 ==
    <<<<256, 887>>, <<890, 895>>, <<900, 906>>, <<908, 908>>, <<910, 929>>,
      <<931, 1327>>, <<1329, 1366>>, <<1369, 1418>>, <<1421, 1423>>,
      <<1425, 1479>>, <<1488, 1514>>, <<1519, 1524>>, <<1542, 1563>>,
      <<1566, 1756>>, <<1758, 1805>>, <<1808, 1866>>, <<1869, 1969>>,
      <<1984, 2042>>, <<2045, 2093>>, <<2096, 2110>>, <<2112, 2139>>,
      <<2142, 2142>>, <<2144, 2154>>, <<2208, 2228>>, <<2230, 2237>>,
      <<2259, 2273>>, <<2275, 2435>>, <<2437, 2444>>, <<2447, 2448>>,
      <<2451, 2472>>, <<2474, 2480>>, <<2482, 2482>>, <<2486, 2489>>,
      <<2492, 2500>>, <<2503, 2504>>, <<2507, 2510>>, <<2519, 2519>>,
      <<2524, 2525>>, <<2527, 2531>>, <<2534, 2558>>, <<2561, 2563>>,
      <<2565, 2570>>, <<2575, 2576>>, <<2579, 2600>>, <<2602, 2608>>,
      <<2610, 2611>>, <<2613, 2614>>, <<2616, 2617>>, <<2620, 2620>>,
      <<2622, 2626>>, <<2631, 2632>>, <<2635, 2637>>, <<2641, 2641>>,
      <<2649, 2652>>, <<2654, 2654>>, <<2662, 2678>>, <<2689, 2691>>,
      <<2693, 2701>>, <<2703, 2705>>, <<2707, 2728>>, <<2730, 2736>>,
      <<2738, 2739>>, <<2741, 2745>>, <<2748, 2757>>, <<2759, 2761>>,
      <<2763, 2765>>, <<2768, 2768>>, <<2784, 2787>>, <<2790, 2801>>,
      <<2809, 2815>>, <<2817, 2819>>, <<2821, 2828>>, <<2831, 2832>>,
      <<2835, 2856>>, <<2858, 2864>>, <<2866, 2867>>, <<2869, 2873>>,
      <<2876, 2884>>, <<2887, 2888>>, <<2891, 2893>>, <<2902, 2903>>,
      <<2908, 2909>>, <<2911, 2915>>, <<2918, 2935>>, <<2946, 2947>>,
      <<2949, 2954>>, <<2958, 2960>>, <<2962, 2965>>, <<2969, 2970>>,
      <<2972, 2972>>, <<2974, 2975>>, <<2979, 2980>>, <<2984, 2986>>,
      <<2990, 3001>>, <<3006, 3010>>, <<3014, 3016>>, <<3018, 3021>>,
      <<3024, 3024>>, <<3031, 3031>>, <<3046, 3066>>, <<3072, 3084>>,
      <<3086, 3088>>, <<3090, 3112>>, <<3114, 3129>>, <<3133, 3140>>,
      <<3142, 3144>>, <<3146, 3149>>, <<3157, 3158>>, <<3160, 3162>>,
      <<3168, 3171>>, <<3174, 3183>>, <<3192, 3212>>, <<3214, 3216>>,
      <<3218, 3240>>, <<3242, 3251>>, <<3253, 3257>>, <<3260, 3268>>,
      <<3270, 3272>>, <<3274, 3277>>, <<3285, 3286>>, <<3294, 3294>>,
      <<3296, 3299>>, <<3302, 3311>>, <<3313, 3314>>, <<3328, 3331>>,
      <<3333, 3340>>, <<3342, 3344>>, <<3346, 3396>>, <<3398, 3400>>,
      <<3402, 3407>>, <<3412, 3427>>, <<3430, 3455>>, <<3458, 3459>>,
      <<3461, 3478>>, <<3482, 3505>>, <<3507, 3515>>, <<3517, 3517>>,
      <<3520, 3526>>, <<3530, 3530>>, <<3535, 3540>>, <<3542, 3542>>,
      <<3544, 3551>>, <<3558, 3567>>, <<3570, 3572>>, <<3585, 3642>>,
      <<3647, 3675>>, <<3713, 3714>>, <<3716, 3716>>, <<3719, 3720>>,
      <<3722, 3722>>, <<3725, 3725>>, <<3732, 3735>>, <<3737, 3743>>,
      <<3745, 3747>>, <<3749, 3749>>, <<3751, 3751>>, <<3754, 3755>>,
      <<3757, 3769>>, <<3771, 3773>>, <<3776, 3780>>, <<3782, 3782>>,
      <<3784, 3789>>, <<3792, 3801>>, <<3804, 3807>>, <<3840, 3911>>,
      <<3913, 3948>>, <<3953, 3991>>, <<3993, 4028>>, <<4030, 4044>>,
      <<4046, 4058>>, <<4096, 4293>>, <<4295, 4295>>, <<4301, 4301>>,
      <<4304, 4680>>, <<4682, 4685>>, <<4688, 4694>>, <<4696, 4696>>,
      <<4698, 4701>>, <<4704, 4744>>, <<4746, 4749>>, <<4752, 4784>>,
      <<4786, 4789>>, <<4792, 4798>>, <<4800, 4800>>, <<4802, 4805>>,
      <<4808, 4822>>, <<4824, 4880>>, <<4882, 4885>>, <<4888, 4954>>,
      <<4957, 4988>>, <<4992, 5017>>, <<5024, 5109>>, <<5112, 5117>>,
      <<5120, 5759>>, <<5761, 5788>>, <<5792, 5880>>, <<5888, 5900>>,
      <<5902, 5908>>, <<5920, 5942>>, <<5952, 5971>>, <<5984, 5996>>,
      <<5998, 6000>>, <<6002, 6003>>, <<6016, 6109>>, <<6112, 6121>>,
      <<6128, 6137>>, <<6144, 6157>>, <<6160, 6169>>, <<6176, 6264>>,
      <<6272, 6314>>, <<6320, 6389>>, <<6400, 6430>>, <<6432, 6443>>,
      <<6448, 6459>>, <<6464, 6464>>, <<6468, 6509>>, <<6512, 6516>>,
      <<6528, 6571>>, <<6576, 6601>>, <<6608, 6618>>, <<6622, 6683>>,
      <<6686, 6750>>, <<6752, 6780>>, <<6783, 6793>>, <<6800, 6809>>,
      <<6816, 6829>>, <<6832, 6846>>, <<6912, 6987>>, <<6992, 7036>>,
      <<7040, 7155>>, <<7164, 7223>>, <<7227, 7241>>, <<7245, 7304>>,
      <<7312, 7354>>, <<7357, 7367>>, <<7376, 7417>>, <<7424, 7673>>,
      <<7675, 7957>>, <<7960, 7965>>, <<7968, 8005>>, <<8008, 8013>>,
      <<8016, 8023>>, <<8025, 8025>>, <<8027, 8027>>, <<8029, 8029>>,
      <<8031, 8061>>, <<8064, 8116>>, <<8118, 8132>>, <<8134, 8147>>,
      <<8150, 8155>>, <<8157, 8175>>, <<8178, 8180>>, <<8182, 8190>>,
      <<8208, 8231>>, <<8240, 8286>>, <<8304, 8305>>, <<8308, 8334>>,
      <<8336, 8348>>, <<8352, 8383>>, <<8400, 8432>>, <<8448, 8587>>,
      <<8592, 9254>>, <<9280, 9290>>, <<9312, 11123>>, <<11126, 11157>>,
      <<11160, 11208>>, <<11210, 11262>>, <<11264, 11310>>, <<11312, 11358>>,
      <<11360, 11507>>, <<11513, 11557>>, <<11559, 11559>>, <<11565, 11565>>,
      <<11568, 11623>>, <<11631, 11632>>, <<11647, 11670>>, <<11680, 11686>>,
      <<11688, 11694>>, <<11696, 11702>>, <<11704, 11710>>, <<11712, 11718>>,
      <<11720, 11726>>, <<11728, 11734>>, <<11736, 11742>>, <<11744, 11854>>,
      <<11904, 11929>>, <<11931, 12019>>, <<12032, 12245>>, <<12272, 12283>>,
      <<12289, 12351>>, <<12353, 12438>>, <<12441, 12543>>, <<12549, 12591>>,
      <<12593, 12686>>, <<12688, 12730>>, <<12736, 12771>>, <<12784, 12830>>,
      <<12832, 13054>>, <<13056, 19893>>, <<19904, 40943>>, <<40960, 42124>>,
      <<42128, 42182>>, <<42192, 42539>>, <<42560, 42743>>, <<42752, 42937>>,
      <<42999, 43051>>, <<43056, 43065>>, <<43072, 43127>>, <<43136, 43205>>,
      <<43214, 43225>>, <<43232, 43347>>, <<43359, 43388>>, <<43392, 43469>>,
      <<43471, 43481>>, <<43486, 43518>>, <<43520, 43574>>, <<43584, 43597>>,
      <<43600, 43609>>, <<43612, 43714>>, <<43739, 43766>>, <<43777, 43782>>,
      <<43785, 43790>>, <<43793, 43798>>, <<43808, 43814>>, <<43816, 43822>>,
      <<43824, 43877>>, <<43888, 44013>>, <<44016, 44025>>, <<44032, 55203>>,
      <<55216, 55238>>, <<55243, 55291>>, <<63744, 64109>>, <<64112, 64217>>,
      <<64256, 64262>>, <<64275, 64279>>, <<64285, 64310>>, <<64312, 64316>>,
      <<64318, 64318>>, <<64320, 64321>>, <<64323, 64324>>, <<64326, 64449>>,
      <<64467, 64831>>, <<64848, 64911>>, <<64914, 64967>>, <<65008, 65021>>,
      <<65024, 65049>>, <<65056, 65106>>, <<65108, 65126>>, <<65128, 65131>>,
      <<65136, 65140>>, <<65142, 65276>>, <<65281, 65470>>, <<65474, 65479>>,
      <<65482, 65487>>, <<65490, 65495>>, <<65498, 65500>>, <<65504, 65510>>,
      <<65512, 65518>>, <<65532, 65533>>, <<65536, 65547>>, <<65549, 65574>>,
      <<65576, 65594>>, <<65596, 65597>>, <<65599, 65613>>, <<65616, 65629>>,
      <<65664, 65786>>, <<65792, 65794>>, <<65799, 65843>>, <<65847, 65934>>,
      <<65936, 65947>>, <<65952, 65952>>, <<66000, 66045>>, <<66176, 66204>>,
      <<66208, 66256>>, <<66272, 66299>>, <<66304, 66339>>, <<66349, 66378>>,
      <<66384, 66426>>, <<66432, 66461>>, <<66463, 66499>>, <<66504, 66517>>,
      <<66560, 66717>>, <<66720, 66729>>, <<66736, 66771>>, <<66776, 66811>>,
      <<66816, 66855>>, <<66864, 66915>>, <<66927, 66927>>, <<67072, 67382>>,
      <<67392, 67413>>, <<67424, 67431>>, <<67584, 67589>>, <<67592, 67592>>,
      <<67594, 67637>>, <<67639, 67640>>, <<67644, 67644>>, <<67647, 67669>>,
      <<67671, 67742>>, <<67751, 67759>>, <<67808, 67826>>, <<67828, 67829>>,
      <<67835, 67867>>, <<67871, 67897>>, <<67903, 67903>>, <<67968, 68023>>,
      <<68028, 68047>>, <<68050, 68099>>, <<68101, 68102>>, <<68108, 68115>>,
      <<68117, 68119>>, <<68121, 68149>>, <<68152, 68154>>, <<68159, 68168>>,
      <<68176, 68184>>, <<68192, 68255>>, <<68288, 68326>>, <<68331, 68342>>,
      <<68352, 68405>>, <<68409, 68437>>, <<68440, 68466>>, <<68472, 68497>>,
      <<68505, 68508>>, <<68521, 68527>>, <<68608, 68680>>, <<68736, 68786>>,
      <<68800, 68850>>, <<68858, 68903>>, <<68912, 68921>>, <<69216, 69246>>,
      <<69376, 69415>>, <<69424, 69465>>, <<69632, 69709>>, <<69714, 69743>>,
      <<69759, 69820>>, <<69822, 69825>>, <<69840, 69864>>, <<69872, 69881>>,
      <<69888, 69940>>, <<69942, 69958>>, <<69968, 70006>>, <<70016, 70093>>,
      <<70096, 70111>>, <<70113, 70132>>, <<70144, 70161>>, <<70163, 70206>>,
      <<70272, 70278>>, <<70280, 70280>>, <<70282, 70285>>, <<70287, 70301>>,
      <<70303, 70313>>, <<70320, 70378>>, <<70384, 70393>>, <<70400, 70403>>,
      <<70405, 70412>>, <<70415, 70416>>, <<70419, 70440>>, <<70442, 70448>>,
      <<70450, 70451>>, <<70453, 70457>>, <<70459, 70468>>, <<70471, 70472>>,
      <<70475, 70477>>, <<70480, 70480>>, <<70487, 70487>>, <<70493, 70499>>,
      <<70502, 70508>>, <<70512, 70516>>, <<70656, 70745>>, <<70747, 70747>>,
      <<70749, 70750>>, <<70784, 70855>>, <<70864, 70873>>, <<71040, 71093>>,
      <<71096, 71133>>, <<71168, 71236>>, <<71248, 71257>>, <<71264, 71276>>,
      <<71296, 71351>>, <<71360, 71369>>, <<71424, 71450>>, <<71453, 71467>>,
      <<71472, 71487>>, <<71680, 71739>>, <<71840, 71922>>, <<71935, 71935>>,
      <<72192, 72263>>, <<72272, 72323>>, <<72326, 72354>>, <<72384, 72440>>,
      <<72704, 72712>>, <<72714, 72758>>, <<72760, 72773>>, <<72784, 72812>>,
      <<72816, 72847>>, <<72850, 72871>>, <<72873, 72886>>, <<72960, 72966>>,
      <<72968, 72969>>, <<72971, 73014>>, <<73018, 73018>>, <<73020, 73021>>,
      <<73023, 73031>>, <<73040, 73049>>, <<73056, 73061>>, <<73063, 73064>>,
      <<73066, 73102>>, <<73104, 73105>>, <<73107, 73112>>, <<73120, 73129>>,
      <<73440, 73464>>, <<73728, 74649>>, <<74752, 74862>>, <<74864, 74868>>,
      <<74880, 75075>>, <<77824, 78894>>, <<82944, 83526>>, <<92160, 92728>>,
      <<92736, 92766>>, <<92768, 92777>>, <<92782, 92783>>, <<92880, 92909>>,
      <<92912, 92917>>, <<92928, 92997>>, <<93008, 93017>>, <<93019, 93025>>,
      <<93027, 93047>>, <<93053, 93071>>, <<93760, 93850>>, <<93952, 94020>>,
      <<94032, 94078>>, <<94095, 94111>>, <<94176, 94177>>,
      <<94208, 100337>>, <<100352, 101106>>, <<110592, 110878>>,
      <<110960, 111355>>, <<113664, 113770>>, <<113776, 113788>>,
      <<113792, 113800>>, <<113808, 113817>>, <<113820, 113823>>,
      <<118784, 119029>>, <<119040, 119078>>, <<119081, 119154>>,
      <<119163, 119272>>, <<119296, 119365>>, <<119520, 119539>>,
      <<119552, 119638>>, <<119648, 119672>>, <<119808, 119892>>,
      <<119894, 119964>>, <<119966, 119967>>, <<119970, 119970>>,
      <<119973, 119974>>, <<119977, 119980>>, <<119982, 119993>>,
      <<119995, 119995>>, <<119997, 120003>>, <<120005, 120069>>,
      <<120071, 120074>>, <<120077, 120084>>, <<120086, 120092>>,
      <<120094, 120121>>, <<120123, 120126>>, <<120128, 120132>>,
      <<120134, 120134>>, <<120138, 120144>>, <<120146, 120485>>,
      <<120488, 120779>>, <<120782, 121483>>, <<121499, 121503>>,
      <<121505, 121519>>, <<122880, 122886>>, <<122888, 122904>>,
      <<122907, 122913>>, <<122915, 122916>>, <<122918, 122922>>,
      <<124928, 125124>>, <<125127, 125142>>, <<125184, 125258>>,
      <<125264, 125273>>, <<125278, 125279>>, <<126065, 126132>>,
      <<126464, 126467>>, <<126469, 126495>>, <<126497, 126498>>,
      <<126500, 126500>>, <<126503, 126503>>, <<126505, 126514>>,
      <<126516, 126519>>, <<126521, 126521>>, <<126523, 126523>>,
      <<126530, 126530>>, <<126535, 126535>>, <<126537, 126537>>,
      <<126539, 126539>>, <<126541, 126543>>, <<126545, 126546>>,
      <<126548, 126548>>, <<126551, 126551>>, <<126553, 126553>>,
      <<126555, 126555>>, <<126557, 126557>>, <<126559, 126559>>,
      <<126561, 126562>>, <<126564, 126564>>, <<126567, 126570>>,
      <<126572, 126578>>, <<126580, 126583>>, <<126585, 126588>>,
      <<126590, 126590>>, <<126592, 126601>>, <<126603, 126619>>,
      <<126625, 126627>>, <<126629, 126633>>, <<126635, 126651>>,
      <<126704, 126705>>, <<126976, 127019>>, <<127024, 127123>>,
      <<127136, 127150>>, <<127153, 127167>>, <<127169, 127183>>,
      <<127185, 127221>>, <<127232, 127244>>, <<127248, 127339>>,
      <<127344, 127404>>, <<127462, 127490>>, <<127504, 127547>>,
      <<127552, 127560>>, <<127568, 127569>>, <<127584, 127589>>,
      <<127744, 128724>>, <<128736, 128748>>, <<128752, 128761>>,
      <<128768, 128883>>, <<128896, 128984>>, <<129024, 129035>>,
      <<129040, 129095>>, <<129104, 129113>>, <<129120, 129159>>,
      <<129168, 129197>>, <<129280, 129291>>, <<129296, 129342>>,
      <<129344, 129392>>, <<129395, 129398>>, <<129402, 129402>>,
      <<129404, 129442>>, <<129456, 129465>>, <<129472, 129474>>,
      <<129488, 129535>>, <<129632, 129645>>, <<131072, 173782>>,
      <<173824, 177972>>, <<177984, 178205>>, <<178208, 183969>>,
      <<183984, 191456>>, <<194560, 195101>>, <<917760, 917999>>>>

\* the printable runes that Unicode 12.0 added: in the tables from Go 1.14
PrintAdded12 ==
    <<<<3191, 3191>>, <<3718, 3718>>, <<3721, 3721>>, <<3724, 3724>>,
      <<3726, 3731>>, <<3736, 3736>>, <<3744, 3744>>, <<3752, 3753>>,
      <<3756, 3756>>, <<3770, 3770>>, <<7418, 7418>>, <<11209, 11209>>,
      <<11263, 11263>>, <<11855, 11855>>, <<42938, 42943>>, <<42946, 42950>>,
      <<43878, 43879>>, <<69600, 69622>>, <<70751, 70751>>, <<71352, 71352>>,
      <<72096, 72103>>, <<72106, 72151>>, <<72154, 72164>>, <<72324, 72325>>,
      <<73664, 73713>>, <<73727, 73727>>, <<94021, 94026>>, <<94031, 94031>>,
      <<94079, 94087>>, <<94178, 94179>>, <<100338, 100343>>,
      <<110928, 110930>>, <<110948, 110951>>, <<123136, 123180>>,
      <<123184, 123197>>, <<123200, 123209>>, <<123214, 123215>>,
      <<123584, 123641>>, <<123647, 123647>>, <<125259, 125259>>,
      <<126209, 126269>>, <<127340, 127340>>, <<128725, 128725>>,
      <<128762, 128762>>, <<128992, 129003>>, <<129293, 129295>>,
      <<129343, 129343>>, <<129393, 129393>>, <<129403, 129403>>,
      <<129445, 129450>>, <<129454, 129455>>, <<129466, 129471>>,
      <<129475, 129482>>, <<129485, 129487>>, <<129536, 129619>>,
      <<129648, 129651>>, <<129656, 129658>>, <<129664, 129666>>,
      <<129680, 129685>>>>

\* the printable runes that Unicode 12.1 and 13.0 added: in the tables from
\* Go 1.16
PrintAdded13 ==
    <<<<2238, 2247>>, <<2901, 2901>>, <<3332, 3332>>, <<3457, 3457>>,
      <<6847, 6848>>, <<11159, 11159>>, <<11856, 11858>>, <<12731, 12735>>,
      <<13055, 13055>>, <<19894, 19903>>, <<40944, 40956>>, <<42951, 42954>>,
      <<42997, 42998>>, <<43052, 43052>>, <<43880, 43883>>, <<65948, 65948>>,
      <<69248, 69289>>, <<69291, 69293>>, <<69296, 69297>>, <<69552, 69579>>,
      <<69959, 69959>>, <<70094, 70095>>, <<70746, 70746>>, <<70752, 70753>>,
      <<71936, 71942>>, <<71945, 71945>>, <<71948, 71955>>, <<71957, 71958>>,
      <<71960, 71989>>, <<71991, 71992>>, <<71995, 72006>>, <<72016, 72025>>,
      <<73648, 73648>>, <<94180, 94180>>, <<94192, 94193>>,
      <<101107, 101589>>, <<101632, 101640>>, <<127245, 127247>>,
      <<127341, 127343>>, <<127405, 127405>>, <<128726, 128727>>,
      <<128763, 128764>>, <<129200, 129201>>, <<129292, 129292>>,
      <<129394, 129394>>, <<129399, 129400>>, <<129443, 129444>>,
      <<129451, 129453>>, <<129483, 129483>>, <<129652, 129652>>,
      <<129667, 129670>>, <<129686, 129704>>, <<129712, 129718>>,
      <<129728, 129730>>, <<129744, 129750>>, <<129792, 129938>>,
      <<129940, 129994>>, <<130032, 130041>>, <<173783, 173789>>,
      <<196608, 201546>>>>

\* the printable runes that Unicode 14.0 and 15.0 added: in the tables from
\* Go 1.21
PrintAdded15 ==
    <<<<1565, 1565>>, <<2160, 2190>>, <<2200, 2207>>, <<2229, 2229>>,
      <<2248, 2258>>, <<3132, 3132>>, <<3165, 3165>>, <<3293, 3293>>,
      <<3315, 3315>>, <<3790, 3790>>, <<5901, 5901>>, <<5909, 5909>>,
      <<5919, 5919>>, <<6159, 6159>>, <<6849, 6862>>, <<6988, 6988>>,
      <<7037, 7038>>, <<7674, 7674>>, <<8384, 8384>>, <<11311, 11311>>,
      <<11359, 11359>>, <<11859, 11869>>, <<40957, 40959>>, <<42944, 42945>>,
      <<42960, 42961>>, <<42963, 42963>>, <<42965, 42969>>, <<42994, 42996>>,
      <<64450, 64450>>, <<64832, 64847>>, <<64975, 64975>>, <<65022, 65023>>,
      <<66928, 66938>>, <<66940, 66954>>, <<66956, 66962>>, <<66964, 66965>>,
      <<66967, 66977>>, <<66979, 66993>>, <<66995, 67001>>, <<67003, 67004>>,
      <<67456, 67461>>, <<67463, 67504>>, <<67506, 67514>>, <<69373, 69375>>,
      <<69488, 69513>>, <<69744, 69749>>, <<69826, 69826>>, <<70207, 70209>>,
      <<71353, 71353>>, <<71488, 71494>>, <<72368, 72383>>, <<72448, 72457>>,
      <<73472, 73488>>, <<73490, 73530>>, <<73534, 73561>>, <<77712, 77810>>,
      <<78895, 78895>>, <<78912, 78933>>, <<92784, 92862>>, <<92864, 92873>>,
      <<110576, 110579>>, <<110581, 110587>>, <<110589, 110590>>,
      <<110879, 110882>>, <<110898, 110898>>, <<110933, 110933>>,
      <<118528, 118573>>, <<118576, 118598>>, <<118608, 118723>>,
      <<119273, 119274>>, <<119488, 119507>>, <<122624, 122654>>,
      <<122661, 122666>>, <<122928, 122989>>, <<123023, 123023>>,
      <<123536, 123566>>, <<124112, 124153>>, <<124896, 124902>>,
      <<124904, 124907>>, <<124909, 124910>>, <<124912, 124926>>,
      <<128732, 128735>>, <<128884, 128886>>, <<128891, 128895>>,
      <<128985, 128985>>, <<129008, 129008>>, <<129401, 129401>>,
      <<129484, 129484>>, <<129653, 129655>>, <<129659, 129660>>,
      <<129671, 129672>>, <<129705, 129711>>, <<129719, 129725>>,
      <<129727, 129727>>, <<129731, 129733>>, <<129742, 129743>>,
      <<129751, 129755>>, <<129760, 129768>>, <<129776, 129784>>,
      <<173790, 173791>>, <<177973, 177977>>, <<201552, 205743>>>>

\* whether rune r is in one of the ranges
InRanges(ranges, r) ==
    \E k \in 1..Len(ranges) : ranges[k][1] <= r /\ r <= ranges[k][2]

\* strconv.IsPrint(r) in release rel: letters, marks, numbers, punctuation,
\* symbols and the ASCII space, of the version of Unicode of the release
IsPrint(rel, r) ==
    IF r <= 255
    THEN (32 <= r /\ r <= 126) \/ (161 <= r /\ r <= 255 /\ r # 173)
    ELSE \/ InRanges(PrintRanges11, r)
         \/ rel >= 14 /\ InRanges(PrintAdded12, r)
         \/ rel >= 16 /\ InRanges(PrintAdded13, r)
         \/ rel >= 21 /\ InRanges(PrintAdded15, r)

RECURSIVE HexDigits(_, _)
\* the last n hexadecimal digits of r
HexDigits(r, n) ==
    IF n = 0 THEN <<>>
    ELSE Append(HexDigits(r \div 16, n - 1), LowerHex[(r % 16) + 1])

\* what %q writes in release rel for the rune r, which the text encodes as
\* enc (appendEscapedRune of strconv); DEL is written \x7f from Go 1.19 on
\* and \u007f before
QuoteRune(rel, r, enc) ==
    IF r \in {34, 92} THEN <<"\\">> \o enc
    ELSE IF IsPrint(rel, r) THEN enc
    ELSE CASE r = 7 -> <<"\\", "a">>
           [] r = 8 -> <<"\\", "b">>
           [] r = 12 -> <<"\\", "f">>
           [] r = 10 -> <<"\\", "n">>
           [] r = 13 -> <<"\\", "r">>
           [] r = 9 -> <<"\\", "t">>
           [] r = 11 -> <<"\\", "v">>
           [] OTHER ->
                IF r < 32 \/ (r = 127 /\ rel >= 19)
                THEN <<"\\", "x">> \o HexDigits(r, 2)
                ELSE IF r < 65536 THEN <<"\\", "u">> \o HexDigits(r, 4)
                ELSE <<"\\", "U">> \o HexDigits(r, 8)

RECURSIVE QuoteChars(_, _)
\* what %q writes in release rel for the text s, whose first rune decodes as
\* d: a byte that begins no valid encoding as \x and its two hexadecimal
\* digits
QuoteDecoded(rel, s, d) ==
    (IF d.width = 1 /\ d.rune = RuneError
     THEN <<"\\", "x">> \o HexDigits(Code(s[1]), 2)
     ELSE QuoteRune(rel, d.rune, SubSeq(s, 1, d.width)))
    \o QuoteChars(rel, SubSeq(s, d.width + 1, Len(s)))

\* what %q writes between the quotes, rune by rune
QuoteChars(rel, s) ==
    IF s = <<>> THEN <<>> ELSE QuoteDecoded(rel, s, DecodeRune(s))

\* the %q verb (strconv.Quote) in release rel: double-quoted, with " and \
\* escaped and the runes that are not printable and the invalid bytes written
\* as escape sequences
Quote(rel, s) == <<"\"">> \o QuoteChars(rel, s) \o <<"\"">>

\* err.Error() in release rel: the format of the message, and what its %q
\* writes
ErrorText(rel, e) ==
    [msg |-> e.msg, quoted |-> [k \in 1..Len(e.arg) |-> Quote(rel, e.arg[k])]]

(***************************************************************************)
(* The path grammar: naiveJSONPathRegexp.                                  *)
(***************************************************************************)
LowerCase == {"a", "b", "c", "d", "e", "f", "g", "h", "i", "j", "k", "l", "m",
              "n", "o", "p", "q", "r", "s", "t", "u", "v", "w", "x", "y", "z"}
UpperCase == {"A", "B", "C", "D", "E", "F", "G", "H", "I", "J", "K", "L", "M",
              "N", "O", "P", "Q", "R", "S", "T", "U", "V", "W", "X", "Y", "Z"}
Digits == {"0", "1", "2", "3", "4", "5", "6", "7", "8", "9"}

\* the class [a-zA-Z0-9_\-]
AttrChars == LowerCase \cup UpperCase \cup Digits \cup {"_", "-"}

RECURSIVE RunLength(_, _)
\* the length of the longest prefix of s made of characters of class
RunLength(s, class) ==
    IF s # <<>> /\ s[1] \in class THEN 1 + RunLength(Tail(s), class) ELSE 0

\* the length of the prefix of s that [a-zA-Z0-9_\-]+ matches, 0 when none
AttrToken(s) == RunLength(s, AttrChars)

\* a slip: \[[0-9]*\], which matches empty brackets too
IndexTokenStar(s) ==
    IF s # <<>> /\ s[1] = "["
    THEN LET n == RunLength(Tail(s), Digits)
         IN IF Len(s) >= n + 2 /\ s[n + 2] = "]" THEN n + 2 ELSE 0
    ELSE 0

\* the length of the prefix of s that \[[0-9]+\] matches, 0 when none
IndexToken(s) ==
    IF s # <<>> /\ s[1] = "["
    THEN LET n == RunLength(Tail(s), Digits)
         IN IF n > 0 /\ Len(s) >= n + 2 /\ s[n + 2] = "]" THEN n + 2 ELSE 0
    ELSE 0

\* a slip: the expression without its closing $, whose last group then
\* matches before whatever follows
MatchRestNoEnd(s) == TRUE

RECURSIVE MatchRest(_)
\* (?:(?:\.[a-zA-Z0-9_\-]+)|\[[0-9]+\])*$
MatchRest(s) ==
    \/ s = <<>>
    \/ /\ s # <<>>
       /\ s[1] = "."
       /\ AttrToken(Tail(s)) > 0
       /\ MatchRest(SliceFrom(s, 1 + AttrToken(Tail(s))))
    \/ /\ IndexToken(s) > 0
       /\ MatchRest(SliceFrom(s, IndexToken(s)))

\* naiveJSONPathRegexp.Match
naiveJSONPathRegexp(s) ==
    \/ AttrToken(s) > 0 /\ MatchRest(SliceFrom(s, AttrToken(s)))
    \/ IndexToken(s) > 0 /\ MatchRest(SliceFrom(s, IndexToken(s)))

(***************************************************************************)
(* Path segments and strconv.Atoi.                                         *)
(***************************************************************************)
\* jsonPathSegment{}: both pointers nil
zeroSegment == [attribute |-> <<>>, index |-> <<>>]

stringSegment(attribute) == [attribute |-> <<attribute>>, index |-> <<>>]

indexSegment(index) == [attribute |-> <<>>, index |-> <<index>>]

DigitValue(c) ==
    CASE c = "0" -> 0 [] c = "1" -> 1 [] c = "2" -> 2 [] c = "3" -> 3
      [] c = "4" -> 4 [] c = "5" -> 5 [] c = "6" -> 6 [] c = "7" -> 7
      [] c = "8" -> 8 [] c = "9" -> 9

RECURSIVE StripZeros(_)
StripZeros(s) ==
    IF Len(s) > 1 /\ s[1] = "0" THEN StripZeros(Tail(s)) ELSE s

RECURSIVE DecimalValue(_, _)
\* the digits of s read in base 10, after the value acc of the digits before
DecimalValue(s, acc) ==
    IF s = <<>> THEN acc
    ELSE DecimalValue(Tail(s), acc * 10 + DigitValue(s[1]))

\* the digits of the largest int, 1<<63 - 1 (int is 64 bits wide)
MaxIntDigits == <<"9", "2", "2", "3", "3", "7", "2", "0", "3", "6",
                  "8", "5", "4", "7", "7", "5", "8", "0", "7">>

RECURSIVE DigitsGreater(_, _)
\* a > b for digit texts of the same length
DigitsGreater(a, b) ==
    IF a = <<>> THEN FALSE
    ELSE IF a[1] # b[1] THEN DigitValue(a[1]) > DigitValue(b[1])
    ELSE DigitsGreater(Tail(a), Tail(b))

\* the digits of 1<<63, the magnitude of the least int
MinIntDigits == <<"9", "2", "2", "3", "3", "7", "2", "0", "3", "6",
                  "8", "5", "4", "7", "7", "5", "8", "0", "8">>

\* whether the decimal text s is more than the decimal text limit
DigitsAbove(s, limit) ==
    LET sig == StripZeros(s)
    IN \/ Len(sig) > Len(limit)
       \/ Len(sig) = Len(limit) /\ DigitsGreater(sig, limit)

\* whether the decimal text s is more than the largest int
OutOfRange(s) == DigitsAbove(s, MaxIntDigits)

\* an int of more than nine digits, which the integers of the model do not
\* hold: its sign and its digits.  Atoi gives it as the code does; remove
\* and set, which compare an index with a length, are modelled for the
\* indices of up to nine digits.
BigInt(negative, digits) == [negative |-> negative, digits |-> digits]

\* the int with this sign and these digits
IntOf(negative, digits) ==
    LET sig == StripZeros(digits)
    IN IF Len(sig) > 9 THEN BigInt(negative, sig)
       ELSE IF negative THEN 0 - DecimalValue(sig, 0)
       ELSE DecimalValue(sig, 0)

\* the digits of the largest uint64, 1<<64 - 1
MaxUintDigits == <<"1", "8", "4", "4", "6", "7", "4", "4", "0", "7",
                   "3", "7", "0", "9", "5", "5", "1", "6", "1", "5">>

RECURSIVE ScanDigits(_, _)
\* the loop of strconv.ParseUint over the text s from its k-th character on:
\* "syntax" at a character that is no digit, "range" at a digit with which
\* the number read so far is more than the largest uint64, whichever comes
\* first, and "read" at the end of the text
ScanDigits(s, k) ==
    IF k > Len(s) THEN "read"
    ELSE IF s[k] \notin Digits THEN "syntax"
    ELSE IF DigitsAbove(SubSeq(s, 1, k), MaxUintDigits) THEN "range"
    ELSE ScanDigits(s, k + 1)

\* the error of strconv.Atoi on the text s
AtoiError(s, what) ==
    [msg |-> "strconv.Atoi: parsing %q: " \o what, arg |-> <<s>>]

\* strconv.Atoi(s): [val, err]; a text may begin with a sign, and a value out
\* of range comes back as the nearest int with the error
Atoi(s) ==
    LET negative == s # <<>> /\ s[1] = "-"
        digits == IF s # <<>> /\ s[1] \in {"+", "-"} THEN Tail(s) ELSE s
        scan == ScanDigits(digits, 1)
    IN IF digits = <<>> \/ scan = "syntax"
       THEN [val |-> 0, err |-> AtoiError(s, "invalid syntax")]
       ELSE IF ~negative
               /\ (scan = "range" \/ DigitsAbove(digits, MaxIntDigits))
       THEN [val |-> BigInt(FALSE, MaxIntDigits),
             err |-> AtoiError(s, "value out of range")]
       ELSE IF negative
               /\ (scan = "range" \/ DigitsAbove(digits, MinIntDigits))
       THEN [val |-> BigInt(TRUE, MinIntDigits),
             err |-> AtoiError(s, "value out of range")]
       ELSE [val |-> IntOf(negative, digits), err |-> NoErr]

(***************************************************************************)
(* parseFirstSegment and parseJSONPath.                                    *)
(***************************************************************************)
\* a read past the end of a string, or a slice with a negative bound
PanicErr == NewError("panic: runtime error")

\* a slip: path[nextClosingSquareBracketIndex:], which keeps the ']'
parseIndexSegmentKeepsBracket(p) ==
    LET nextClosingSquareBracketIndex == StringsIndex(p, "]")
    IN IF nextClosingSquareBracketIndex < 1
       THEN [segment |-> zeroSegment, rest |-> <<>>, err |-> PanicErr]
       ELSE LET a == Atoi(Slice(p, 1, nextClosingSquareBracketIndex))
            IN IF a.err # NoErr
               THEN [segment |-> zeroSegment, rest |-> <<>>,
                     err |-> Wrap("failed to parse index: ", a.err)]
               ELSE [segment |-> indexSegment(a.val),
                     rest |-> SliceFrom(p, nextClosingSquareBracketIndex),
                     err |-> NoErr]

\* parseFirstSegment, when the text begins with [ (lines 216 to 223)
parseIndexSegment(p) ==
    LET nextClosingSquareBracketIndex == StringsIndex(p, "]")
    IN IF nextClosingSquareBracketIndex < 1
       THEN [segment |-> zeroSegment, rest |-> <<>>, err |-> PanicErr]
       ELSE LET a == Atoi(Slice(p, 1, nextClosingSquareBracketIndex))
            IN IF a.err # NoErr
               THEN [segment |-> zeroSegment, rest |-> <<>>,
                     err |-> Wrap("failed to parse index: ", a.err)]
               ELSE [segment |-> indexSegment(a.val),
                     rest |-> SliceFrom(p, nextClosingSquareBracketIndex + 1),
                     err |-> NoErr]

\* a slip: the attribute always runs to the next '.', whatever '[' is before it
parseAttributeSegmentToDot(p) ==
    LET nextDotIndex == StringsIndex(p, ".")
        nextSquareBracketIndex == StringsIndex(p, "[")
    IN
    IF nextDotIndex = -1 /\ nextSquareBracketIndex = -1
    THEN [segment |-> stringSegment(p), rest |-> <<>>, err |-> NoErr]
    ELSE IF nextDotIndex = -1
    THEN [segment |-> stringSegment(Slice(p, 0, nextSquareBracketIndex)),
          rest |-> SliceFrom(p, nextSquareBracketIndex), err |-> NoErr]
    ELSE [segment |-> stringSegment(Slice(p, 0, nextDotIndex)),
          rest |-> SliceFrom(p, nextDotIndex), err |-> NoErr]

\* parseFirstSegment, when the text does not begin with [ (lines 225 to 236)
parseAttributeSegment(p) ==
    LET nextDotIndex == StringsIndex(p, ".")
        nextSquareBracketIndex == StringsIndex(p, "[")
    IN
    IF nextDotIndex = -1 /\ nextSquareBracketIndex = -1
    THEN [segment |-> stringSegment(p), rest |-> <<>>, err |-> NoErr]
    ELSE IF nextDotIndex = -1
    THEN [segment |-> stringSegment(Slice(p, 0, nextSquareBracketIndex)),
          rest |-> SliceFrom(p, nextSquareBracketIndex), err |-> NoErr]
    ELSE
    LET nextIndex ==
            IF 0 < nextSquareBracketIndex /\ nextSquareBracketIndex < nextDotIndex
            THEN nextSquareBracketIndex
            ELSE nextDotIndex
    IN [segment |-> stringSegment(Slice(p, 0, nextIndex)),
        rest |-> SliceFrom(p, nextIndex), err |-> NoErr]

\* parseFirstSegment(path): [segment, rest, err]
parseFirstSegment(path0) ==
    IF path0 = <<>> THEN [segment |-> zeroSegment, rest |-> <<>>, err |-> PanicErr]
    ELSE
    LET p == IF path0[1] = "." THEN SliceFrom(path0, 1) ELSE path0
    IN
    IF p = <<>> THEN [segment |-> zeroSegment, rest |-> <<>>, err |-> PanicErr]
    ELSE IF p[1] = "[" THEN parseIndexSegment(p)
    ELSE parseAttributeSegment(p)

\* the error of parseJSONPath on a text the regular expression rejects
MalformedPathError(p) ==
    [msg |-> "cannot parse json path [%q], it doesn't seem valid",
     arg |-> <<p>>]

RECURSIVE parseLoop(_, _)
\* the loop of parseJSONPath, from the text left and the segments read
parseLoop(left, segments) ==
    IF left = <<>> THEN [segments |-> segments, err |-> NoErr]
    ELSE LET r == parseFirstSegment(left)
         IN IF r.err # NoErr
            THEN [segments |-> <<>>,
                  err |-> Wrap("failed to parse json path: ", r.err)]
            ELSE parseLoop(r.rest, Append(segments, r.segment))

\* parseJSONPath(p): [segments, err]
parseJSONPath(p) ==
    IF ~naiveJSONPathRegexp(p)
    THEN [segments |-> <<>>, err |-> MalformedPathError(p)]
    ELSE parseLoop(p, <<>>)

(***************************************************************************)
(* Values and the heap.  An interface{} value is nil, a scalar (a string,  *)
(* a boolean or a finite number), a map reference, a slice: a reference to *)
(* a backing array with a length, its capacity being the length of the     *)
(* backing array, a struct held by value: its type and its exported fields *)
(* in the order of their declaration, or a pointer to a struct of the      *)
(* heap, nil when its id is 0.                                             *)
(***************************************************************************)
Nil == [t |-> "nil"]
Scalar(s) == [t |-> "scalar", s |-> s]
MapRef(id) == [t |-> "map", id |-> id]
SliceRef(id, len) == [t |-> "slice", id |-> id, len |-> len]
StructVal(type, f) == [t |-> "struct", type |-> type, f |-> f]
PtrRef(type, id) == [t |-> "ptr", type |-> type, id |-> id]

\* a field of a struct: its name in the JSON encoding and its value
Field(name, val) == [name |-> name, val |-> val]

MapObject(m) == [k |-> "map", m |-> m]
ArrayObject(e) == [k |-> "array", e |-> e]
StructObject(type, f) == [k |-> "struct", type |-> type, f |-> f]

\* cap(slice)
Cap(h, slice) == Len(h[slice.id].e)

\* v, ok := m[key]
MapHas(h, id, key) == key \in DOMAIN h[id].m
MapGet(h, id, key) == IF MapHas(h, id, key) THEN h[id].m[key] ELSE Nil

\* m[key] = v
MapStore(h, id, key, v) ==
    [h EXCEPT ![id] = MapObject([k \in DOMAIN h[id].m \cup {key} |->
                                    IF k = key THEN v ELSE h[id].m[k]])]

\* delete(m, key)
MapDelete(h, id, key) ==
    [h EXCEPT ![id] = MapObject([k \in DOMAIN h[id].m \ {key} |-> h[id].m[k]])]

\* slice[index], index counted from 0
SliceGet(h, slice, index) == h[slice.id].e[index + 1]

\* slice[index] = v
SliceStore(h, slice, index, v) == [h EXCEPT ![slice.id].e[index + 1] = v]

\* make(map[string]interface{}, 1): [heap, val]
makeMap(h) ==
    [heap |-> Append(h, MapObject(<<>>)), val |-> MapRef(Len(h) + 1)]

\* make([]interface{}, len, cap): [heap, val]
makeSlice(h, len, cap) ==
    [heap |-> Append(h, ArrayObject([j \in 1..cap |-> Nil])),
     val |-> SliceRef(Len(h) + 1, len)]

\* the sizes in bytes of the blocks of the allocator (runtime/sizeclasses.go)
ClassSizes ==
    <<8, 16, 24, 32, 48, 64, 80, 96, 112, 128,
      144, 160, 176, 192, 208, 224, 240, 256, 288, 320,
      352, 384, 416, 448, 480, 512, 576, 640, 704, 768,
      896, 1024, 1152, 1280, 1408, 1536, 1792, 2048, 2304, 2688,
      3072, 3200, 3456, 4096, 4864, 5376, 6144, 6528, 6784, 6912,
      8192, 9472, 9728, 10240, 10880, 12288, 13568, 14336, 16384, 18432,
      19072, 20480, 21760, 24576, 27264, 28672, 32768>>

\* the size class that holds size bytes
SizeClass(size) ==
    ClassSizes[CHOOSE k \in 1..Len(ClassSizes) :
                  /\ ClassSizes[k] >= size
                  /\ k > 1 => ClassSizes[k - 1] < size]

\* roundupsize: the bytes that a block asked for size bytes of elements with
\* pointers can hold, a size class up to 32768 bytes and whole pages of 8192
\* bytes above.  From Go 1.22 on a block of more than 512 bytes begins with
\* a header of 8 bytes, which the elements cannot use.
RoundUpSize(rel, size) ==
    IF rel >= 22
    THEN IF size > 32760 THEN ((size + 8191) \div 8192) * 8192
         ELSE IF size > 512 THEN SizeClass(size + 8) - 8
         ELSE SizeClass(size)
    ELSE IF size < 32768 THEN SizeClass(size)
    ELSE ((size + 8191) \div 8192) * 8192

\* the size in bytes of an interface{} element (two 64-bit words)
ElemSize == 16

\* the capacity append grows a full backing array of capacity cap to
\* (runtime.growslice for one more element): the capacity doubles below a
\* threshold, 1024 elements up to Go 1.17 and 256 from Go 1.18 on, and from
\* there on grows by a quarter, and by 192 more from Go 1.18 on; then it
\* takes all of the block the allocator gives
GrowCap(rel, cap) ==
    LET newLen == cap + 1
        doublecap == cap + cap
        threshold == IF rel < 18 THEN 1024 ELSE 256
        newcap == IF newLen > doublecap THEN newLen
                  ELSE IF cap < threshold THEN doublecap
                  ELSE IF rel < 18 THEN cap + (cap \div 4)
                  ELSE cap + ((cap + 3 * threshold) \div 4)
    IN RoundUpSize(rel, newcap * ElemSize) \div ElemSize

\* append(slice, v): [heap, val]; in place when the capacity allows
appendOne(rel, h, slice, v) ==
    IF slice.len < Cap(h, slice)
    THEN [heap |-> SliceStore(h, slice, slice.len, v),
          val |-> SliceRef(slice.id, slice.len + 1)]
    ELSE LET old == h[slice.id].e
             grown == [j \in 1..GrowCap(rel, Len(old)) |->
                          IF j <= slice.len THEN old[j]
                          ELSE IF j = slice.len + 1 THEN v
                          ELSE Nil]
         IN [heap |-> Append(h, ArrayObject(grown)),
             val |-> SliceRef(Len(h) + 1, slice.len + 1)]

(***************************************************************************)
(* remove.                                                                 *)
(***************************************************************************)
\* what remove and set return: the heap they leave, and (value, error)
Ok(h, v) == [heap |-> h, val |-> v, err |-> NoErr]
Fail(h, e) == [heap |-> h, val |-> Nil, err |-> e]

ErrObjectByIndex == NewError("cannot address content of JSON object by index")
ErrArrayByAttribute == NewError("cannot address content of JSON array by attribute")
ErrInvalidPath == NewError("invalid path")
ErrOutOfBounds == NewError("out of bounds insertion index")

\* a slip: the slice is cut by one at its end, wherever index is
removeFromSliceLast(h, slice, index) ==
    IF index < 0 \/ slice.len <= index
    THEN [heap |-> h, val |-> slice]
    ELSE [heap |-> h, val |-> SliceRef(slice.id, slice.len - 1)]

\* removeFromSlice(slice, index): [heap, val]
removeFromSlice(h, slice, index) ==
    IF index < 0 \/ slice.len <= index
    THEN [heap |-> h, val |-> slice]
    ELSE IF index = slice.len - 1
    THEN [heap |-> h, val |-> SliceRef(slice.id, slice.len - 1)]
    ELSE \* append(slice[:index], slice[index+1:]...): the capacity allows it,
         \* so the elements after index move down in the backing array
         [heap |-> [h EXCEPT ![slice.id].e =
                       [j \in 1..Len(@) |->
                           IF index + 1 <= j /\ j <= slice.len - 1
                           THEN @[j + 1] ELSE @[j]]],
          val |-> SliceRef(slice.id, slice.len - 1)]

RECURSIVE remove(_, _, _)

\* a slip: no test of whether the key is there before the recursion
removeMapNoLookup(h, toModify, parsedPath) ==
    LET head == parsedPath[1]
    IN
    IF parsedPath = <<>> THEN Fail(h, PanicErr)
    ELSE IF head.attribute = <<>> THEN Fail(h, ErrObjectByIndex)
    ELSE IF Len(parsedPath) = 1
    THEN Ok(MapDelete(h, toModify.id, head.attribute[1]), toModify)
    ELSE LET deeper == MapGet(h, toModify.id, head.attribute[1])
             r == remove(h, deeper, Tail(parsedPath))
         IN IF r.err # NoErr THEN Fail(r.heap, r.err)
            ELSE Ok(MapStore(r.heap, toModify.id, head.attribute[1], r.val),
                    toModify)

\* remove, case map[string]interface{} (lines 45 to 64)
removeMap(h, toModify, parsedPath) ==
    LET head == parsedPath[1]
    IN
    IF parsedPath = <<>> THEN Fail(h, PanicErr)
    ELSE IF head.attribute = <<>> THEN Fail(h, ErrObjectByIndex)
    ELSE IF Len(parsedPath) = 1
    THEN Ok(MapDelete(h, toModify.id, head.attribute[1]), toModify)
    ELSE IF ~MapHas(h, toModify.id, head.attribute[1])
    THEN Ok(h, toModify)
    ELSE LET deeper == MapGet(h, toModify.id, head.attribute[1])
             r == remove(h, deeper, Tail(parsedPath))
         IN IF r.err # NoErr THEN Fail(r.heap, r.err)
            ELSE Ok(MapStore(r.heap, toModify.id, head.attribute[1], r.val),
                    toModify)

\* remove, case []interface{} (lines 65 to 84)
removeSlice(h, toModify, parsedPath) ==
    LET head == parsedPath[1]
    IN
    IF parsedPath = <<>> THEN Fail(h, PanicErr)
    ELSE IF head.index = <<>> THEN Fail(h, ErrArrayByAttribute)
    ELSE LET index == head.index[1]
         IN
         IF toModify.len <= index THEN Ok(h, toModify)
         ELSE IF Len(parsedPath) = 1
         THEN LET s == removeFromSlice(h, toModify, index)
              IN Ok(s.heap, s.val)
         ELSE IF index < 0 THEN Fail(h, PanicErr)
         ELSE LET deeper == SliceGet(h, toModify, index)
                  r == remove(h, deeper, Tail(parsedPath))
              IN IF r.err # NoErr THEN Fail(r.heap, r.err)
                 ELSE Ok(SliceStore(r.heap, toModify, index, r.val), toModify)

\* a slip: a scalar is left alone, as nil is
removeScalarNoOp(h, toModify, parsedPath) ==
    CASE toModify.t = "map" -> removeMap(h, toModify, parsedPath)
      [] toModify.t = "slice" -> removeSlice(h, toModify, parsedPath)
      [] OTHER -> Ok(h, toModify)

\* remove(toModify, parsedPath): [heap, val, err]
remove(h, toModify, parsedPath) ==
    CASE toModify.t = "map" -> removeMap(h, toModify, parsedPath)
      [] toModify.t = "slice" -> removeSlice(h, toModify, parsedPath)
      [] toModify.t = "nil" -> Ok(h, toModify)
      [] OTHER -> Fail(h, ErrInvalidPath)

(***************************************************************************)
(* set.                                                                    *)
(***************************************************************************)
RECURSIVE set(_, _, _, _, _)

\* a slip: the value is stored under the key, not what the recursion returned
setMapStoresValue(rel, h, toModify, parsedPath, value) ==
    LET head == parsedPath[1]
    IN
    IF head.attribute = <<>> THEN Fail(h, ErrObjectByIndex)
    ELSE LET deeper == MapGet(h, toModify.id, head.attribute[1])
             r == set(rel, h, deeper, Tail(parsedPath), value)
         IN IF r.err # NoErr THEN Fail(r.heap, r.err)
            ELSE Ok(MapStore(r.heap, toModify.id, head.attribute[1], value),
                    toModify)

\* a slip: the error message of the other kind of container
setMapOtherMessage(rel, h, toModify, parsedPath, value) ==
    LET head == parsedPath[1]
    IN
    IF head.attribute = <<>> THEN Fail(h, ErrArrayByAttribute)
    ELSE LET deeper == MapGet(h, toModify.id, head.attribute[1])
             r == set(rel, h, deeper, Tail(parsedPath), value)
         IN IF r.err # NoErr THEN Fail(r.heap, r.err)
            ELSE Ok(MapStore(r.heap, toModify.id, head.attribute[1], r.val),
                    toModify)

\* a slip: the write-back comes before the test of the error
setMapWritesFirst(rel, h, toModify, parsedPath, value) ==
    LET head == parsedPath[1]
    IN
    IF head.attribute = <<>> THEN Fail(h, ErrObjectByIndex)
    ELSE LET deeper == MapGet(h, toModify.id, head.attribute[1])
             r == set(rel, h, deeper, Tail(parsedPath), value)
             stored == MapStore(r.heap, toModify.id, head.attribute[1], r.val)
         IN IF r.err # NoErr THEN Fail(stored, r.err)
            ELSE Ok(stored, toModify)

\* set, case map[string]interface{} (lines 119 to 131)
setMap(rel, h, toModify, parsedPath, value) ==
    LET head == parsedPath[1]
    IN
    IF head.attribute = <<>> THEN Fail(h, ErrObjectByIndex)
    ELSE LET deeper == MapGet(h, toModify.id, head.attribute[1])
             r == set(rel, h, deeper, Tail(parsedPath), value)
         IN IF r.err # NoErr THEN Fail(r.heap, r.err)
            ELSE Ok(MapStore(r.heap, toModify.id, head.attribute[1], r.val),
                    toModify)

\* a slip: len(toModify) <= index, which refuses the index at the length
setSliceNoAppend(rel, h, toModify, parsedPath, value) ==
    LET head == parsedPath[1]
    IN
    IF head.index = <<>> THEN Fail(h, ErrArrayByAttribute)
    ELSE LET index == head.index[1]
         IN
         IF index < 0 \/ toModify.len <= index THEN Fail(h, ErrOutOfBounds)
         ELSE LET deeper == SliceGet(h, toModify, index)
                  r == set(rel, h, deeper, Tail(parsedPath), value)
              IN IF r.err # NoErr THEN Fail(r.heap, r.err)
                 ELSE Ok(SliceStore(r.heap, toModify, index, r.val), toModify)

\* a slip: append(toModify[:index], modifiedDeeper) where an element is replaced,
\* which drops the elements after it
setSliceTruncates(rel, h, toModify, parsedPath, value) ==
    LET head == parsedPath[1]
    IN
    IF head.index = <<>> THEN Fail(h, ErrArrayByAttribute)
    ELSE LET index == head.index[1]
         IN
         IF index < 0 \/ toModify.len < index THEN Fail(h, ErrOutOfBounds)
         ELSE LET deeper == IF index < toModify.len
                            THEN SliceGet(h, toModify, index)
                            ELSE Nil
                  r == set(rel, h, deeper, Tail(parsedPath), value)
              IN IF r.err # NoErr THEN Fail(r.heap, r.err)
                 ELSE IF index = toModify.len
                 THEN LET a == appendOne(rel, r.heap, toModify, r.val)
                      IN Ok(a.heap, a.val)
                 ELSE Ok(SliceStore(r.heap, toModify, index, r.val),
                         SliceRef(toModify.id, index + 1))

\* set, case []interface{} (lines 132 to 154)
setSlice(rel, h, toModify, parsedPath, value) ==
    LET head == parsedPath[1]
    IN
    IF head.index = <<>> THEN Fail(h, ErrArrayByAttribute)
    ELSE LET index == head.index[1]
         IN
         IF index < 0 \/ toModify.len < index THEN Fail(h, ErrOutOfBounds)
         ELSE LET deeper == IF index < toModify.len
                            THEN SliceGet(h, toModify, index)
                            ELSE Nil
                  r == set(rel, h, deeper, Tail(parsedPath), value)
              IN IF r.err # NoErr THEN Fail(r.heap, r.err)
                 ELSE IF index = toModify.len
                 THEN LET a == appendOne(rel, r.heap, toModify, r.val)
                      IN Ok(a.heap, a.val)
                 ELSE Ok(SliceStore(r.heap, toModify, index, r.val), toModify)

\* a slip: a mapping is made whatever the head segment is
setNilAlwaysMap(rel, h, toModify, parsedPath, value) ==
    LET deeper == makeMap(h)
    IN set(rel, deeper.heap, deeper.val, parsedPath, value)

\* a slip: make([]interface{}, 1), a sequence that starts with one nil element
setNilLenOne(rel, h, toModify, parsedPath, value) ==
    LET head == parsedPath[1]
        deeper == IF head.attribute = <<>> THEN makeSlice(h, 1, 1)
                  ELSE makeMap(h)
    IN set(rel, deeper.heap, deeper.val, parsedPath, value)

\* set, case nil (lines 155 to 160)
setNil(rel, h, toModify, parsedPath, value) ==
    LET head == parsedPath[1]
        deeper == IF head.attribute = <<>> THEN makeSlice(h, 0, 1)
                  ELSE makeMap(h)
    IN set(rel, deeper.heap, deeper.val, parsedPath, value)

\* set(toModify, parsedPath, value): [heap, val, err]
set(rel, h, toModify, parsedPath, value) ==
    IF Len(parsedPath) = 0 THEN Ok(h, value)
    ELSE CASE toModify.t = "map" -> setMap(rel, h, toModify, parsedPath, value)
           [] toModify.t = "slice" -> setSlice(rel, h, toModify, parsedPath, value)
           [] toModify.t = "nil" -> setNil(rel, h, toModify, parsedPath, value)
           [] OTHER -> Fail(h, ErrInvalidPath)

(***************************************************************************)
(* The modifications Remove(path) and Set(path, value): the closures, as   *)
(* the values they capture.                                                *)
(***************************************************************************)
Remove(p) == [kind |-> "Remove", path |-> p, value |-> Nil]
Set(p, value) == [kind |-> "Set", path |-> p, value |-> value]

\* modification(toModify), from where parseJSONPath has returned parsed:
\* [heap, val, err]
ApplyParsed(rel, h, modification, toModify, parsed) ==
    IF parsed.err # NoErr THEN Fail(h, parsed.err)
    ELSE IF modification.kind = "Remove"
    THEN remove(h, toModify, parsed.segments)
    ELSE set(rel, h, toModify, parsed.segments, modification.value)

\* modification(toModify) in each of the releases rels, the path parsed and
\* then remove or set
Apply(rels, h, modification, toModify) ==
    LET parsed == parseJSONPath(modification.path)
    IN [rel \in rels |-> ApplyParsed(rel, h, modification, toModify, parsed)]

(***************************************************************************)
(* JSON documents, json.Unmarshal and json.Marshal.  A document is the     *)
(* structure a JSON text denotes; the text of Modify's input and output is *)
(* modelled by the document it encodes.                                    *)
(***************************************************************************)
DNull == [t |-> "null"]
DScalar(s) == [t |-> "scalar", s |-> s]
DObject(m) == [t |-> "object", m |-> m]
DArray(e) == [t |-> "array", e |-> e]
\* what unfolding a value that contains itself ends with
DCycle == [t |-> "cycle"]
\* a text that is no JSON document: {
DTruncated == [t |-> "truncated"]

\* what the encoder tells one nested value from another by: the map, the
\* backing array with the length of the slice, the pointer
Key(v) == [t |-> v.t, id |-> v.id, len |-> IF v.t = "slice" THEN v.len ELSE 0]

RECURSIVE Deep(_, _, _)
\* the document the value v denotes in heap h, below the values seen; a value
\* that is below itself denotes DCycle there
Deep(h, v, seen) ==
    CASE v.t = "nil" -> DNull
      [] v.t = "scalar" -> DScalar(v.s)
      [] v.t = "struct" ->
            DObject([name \in {v.f[j].name : j \in 1..Len(v.f)} |->
                        LET j == CHOOSE x \in 1..Len(v.f) : v.f[x].name = name
                        IN Deep(h, v.f[j].val, seen)])
      [] v.t = "ptr" /\ v.id = 0 -> DNull
      [] OTHER ->
            IF Key(v) \in seen THEN DCycle
            ELSE LET below == seen \cup {Key(v)}
                 IN CASE v.t = "map" ->
                            DObject([k \in DOMAIN h[v.id].m |->
                                        Deep(h, h[v.id].m[k], below)])
                      [] v.t = "slice" ->
                            DArray([j \in 1..v.len |->
                                       Deep(h, h[v.id].e[j], below)])
                      [] v.t = "ptr" ->
                            Deep(h, StructVal(v.type, h[v.id].f), below)

\* the document of v
Doc(h, v) == Deep(h, v, {})

RECURSIVE HasCycle(_, _, _)
\* whether a value that is below itself is met unfolding v below the values
\* seen
HasCycle(h, v, seen) ==
    CASE v.t \in {"nil", "scalar"} -> FALSE
      [] v.t = "struct" ->
            \E j \in 1..Len(v.f) : HasCycle(h, v.f[j].val, seen)
      [] v.t = "ptr" /\ v.id = 0 -> FALSE
      [] OTHER ->
            \/ Key(v) \in seen
            \/ LET below == seen \cup {Key(v)}
               IN CASE v.t = "map" ->
                          \E k \in DOMAIN h[v.id].m :
                              HasCycle(h, h[v.id].m[k], below)
                    [] v.t = "slice" ->
                          \E j \in 1..v.len : HasCycle(h, h[v.id].e[j], below)
                    [] v.t = "ptr" ->
                          \E j \in 1..Len(h[v.id].f) :
                              HasCycle(h, h[v.id].f[j].val, below)

RECURSIVE TextLess(_, _)
\* a < b for Go strings: byte by byte
TextLess(a, b) ==
    IF b = <<>> THEN FALSE
    ELSE IF a = <<>> THEN TRUE
    ELSE IF a[1] = b[1] THEN TextLess(Tail(a), Tail(b))
    ELSE Code(a[1]) < Code(b[1])

RECURSIVE SortedKeys(_)
\* the keys of a map in the order the encoder writes them
SortedKeys(S) ==
    IF S = {} THEN <<>>
    ELSE LET least == CHOOSE a \in S : \A b \in S \ {a} : TextLess(a, b)
         IN <<least>> \o SortedKeys(S \ {least})

RECURSIVE Nested(_, _)
RECURSIVE NestedOfFields(_, _)
\* the maps, slices and pointers that the encoding of v begins with: v itself,
\* or those of its fields when v is a struct
Nested(h, v) ==
    CASE v.t \in {"map", "slice"} -> <<v>>
      [] v.t = "ptr" /\ v.id # 0 -> <<v>>
      [] v.t = "struct" -> NestedOfFields(h, v.f)
      [] OTHER -> <<>>
NestedOfFields(h, f) ==
    IF f = <<>> THEN <<>>
    ELSE Nested(h, f[1].val) \o NestedOfFields(h, Tail(f))

RECURSIVE NestedOfAll(_, _)
NestedOfAll(h, vs) ==
    IF vs = <<>> THEN <<>> ELSE Nested(h, vs[1]) \o NestedOfAll(h, Tail(vs))

\* the maps, slices and pointers one level below v, in the order the encoder
\* meets them
NestedBelow(h, v) ==
    CASE v.t = "map" ->
            LET ks == SortedKeys(DOMAIN h[v.id].m)
            IN NestedOfAll(h, [j \in 1..Len(ks) |-> h[v.id].m[ks[j]]])
      [] v.t = "slice" -> NestedOfAll(h, SubSeq(h[v.id].e, 1, v.len))
      [] v.t = "ptr" -> NestedOfFields(h, h[v.id].f)

RECURSIVE FirstEndless(_, _)
\* the first of the values vs whose encoding does not end
FirstEndless(h, vs) ==
    IF HasCycle(h, vs[1], {}) THEN vs[1] ELSE FirstEndless(h, Tail(vs))

RECURSIVE Descent(_, _)
\* the values the encoder is inside of, one below the other, when it goes
\* down a value whose encoding does not end: from trail's last value down to
\* the first value that is on the trail already
Descent(h, trail) ==
    LET next == FirstEndless(h, NestedBelow(h, trail[Len(trail)]))
    IN IF \E j \in 1..Len(trail) : Key(trail[j]) = Key(next)
       THEN Append(trail, next)
       ELSE Descent(h, Append(trail, next))

\* the depth from which on the encoder looks for cycles
startDetectingCyclesAfter == 1000

\* the value of the descent trail at which the encoder finds the cycle: the
\* first one that is below itself among those nested deeper than
\* startDetectingCyclesAfter.  The trail, its values at depths 1, 2, ..., comes
\* back at depth Len(trail) to the value it has at depth mu.
Recurring(trail) ==
    LET mu == CHOOSE j \in 1..(Len(trail) - 1) :
                  Key(trail[j]) = Key(trail[Len(trail)])
        lambda == Len(trail) - mu
        from == IF mu > startDetectingCyclesAfter THEN mu
                ELSE startDetectingCyclesAfter + 1
    IN trail[mu + ((from - mu) % lambda)]

\* the kinds of the values among which the encoder of release rel looks for
\* a cycle, and whose nesting it counts: none before Go 1.15, the pointers in
\* Go 1.15, the maps, slices and pointers from Go 1.16 on
CycleKinds(rel) ==
    IF rel < 15 THEN {}
    ELSE IF rel < 16 THEN {"ptr"}
    ELSE {"map", "slice", "ptr"}

\* the values of vs that are of one of the kinds
OfKinds(vs, kinds) == SelectSeq(vs, LAMBDA v : v.t \in kinds)

\* the values of the kinds on the descent trail, which comes back with its
\* last value to one before: those before the cycle, those of the cycle, and
\* the first of the cycle again; none when the cycle has no value of the kinds
Counted(trail, kinds) ==
    LET mu == CHOOSE j \in 1..(Len(trail) - 1) :
                  Key(trail[j]) = Key(trail[Len(trail)])
        loop == OfKinds(SubSeq(trail, mu, Len(trail) - 1), kinds)
    IN IF loop = <<>> THEN <<>>
       ELSE OfKinds(SubSeq(trail, 1, mu - 1), kinds) \o loop \o <<loop[1]>>

\* reflect.Type.String() of a map, slice or pointer
TypeName(v) ==
    CASE v.t = "map" -> "map[string]interface {}"
      [] v.t = "slice" -> "[]interface {}"
      [] v.t = "ptr" -> "*" \o v.type

\* the empty string, and the text of a document
EmptyText == <<>>
TextOf(d) == <<d>>

\* the end of a program whose encoder goes down a cycle that it does not
\* look for: the stack grows to its limit and the runtime stops the program
\* (fatal error: stack overflow), so that Marshal does not return
StackOverflow == NewError("fatal error: stack overflow")

\* json.Marshal of a value whose encoding does not end, by the values that
\* the encoder counts on its way down
MarshalCycle(counted) ==
    IF counted = <<>> THEN [output |-> EmptyText, err |-> StackOverflow]
    ELSE [output |-> EmptyText,
          err |-> NewError("json: unsupported value: encountered a cycle via "
                           \o TypeName(Recurring(counted)))]

\* json.Marshal(v) in release rel: [output, err]
Marshal(rel, h, v) ==
    IF HasCycle(h, v, {})
    THEN MarshalCycle(Counted(Descent(h, <<FirstEndless(h, Nested(h, v))>>),
                              CycleKinds(rel)))
    ELSE [output |-> TextOf(Doc(h, v)), err |-> NoErr]

RECURSIVE GrowTo(_, _, _)
\* the capacity of a slice of capacity cap once appends have made it n long
GrowTo(rel, cap, n) ==
    IF n <= cap THEN cap ELSE GrowTo(rel, GrowCap(rel, cap), n)

\* the capacity of a slice grown from make([]interface{}, 0) by n appends
AppendCap(rel, n) == GrowTo(rel, 0, n)

RECURSIVE decodeValue(_, _, _)
RECURSIVE decodeMembers(_, _, _, _, _)
RECURSIVE decodeElements(_, _, _, _, _)

\* the members keys of object document d stored into map id: the heap
decodeMembers(rel, h, id, d, keys) ==
    IF keys = {} THEN h
    ELSE LET k == CHOOSE x \in keys : TRUE
             c == decodeValue(rel, h, d.m[k])
         IN decodeMembers(rel, MapStore(c.heap, id, k, c.val), id, d, keys \ {k})

\* the elements of array document d from position j on stored into slice,
\* whose capacity holds them all: the heap
decodeElements(rel, h, slice, d, j) ==
    IF j > Len(d.e) \/ j > Cap(h, slice) THEN h
    ELSE LET c == decodeValue(rel, h, d.e[j])
         IN decodeElements(rel, SliceStore(c.heap, slice, j - 1, c.val), slice, d, j + 1)

\* the value json.Unmarshal builds for document d: [heap, val]
decodeValue(rel, h, d) ==
    CASE d.t = "null" -> [heap |-> h, val |-> Nil]
      [] d.t = "scalar" -> [heap |-> h, val |-> Scalar(d.s)]
      [] d.t = "object" ->
            LET m == makeMap(h)
            IN [heap |-> decodeMembers(rel, m.heap, m.val.id, d, DOMAIN d.m),
                val |-> m.val]
      [] d.t = "array" ->
            LET a == makeSlice(h, Len(d.e), AppendCap(rel, Len(d.e)))
            IN [heap |-> decodeElements(rel, a.heap, a.val, d, 1), val |-> a.val]

\* json.Unmarshal(input, &untypedParsed): [heap, val, err]
Unmarshal(rel, h, d) ==
    IF d = DTruncated THEN Fail(h, NewError("unexpected end of JSON input"))
    ELSE LET c == decodeValue(rel, h, d) IN Ok(c.heap, c.val)

(***************************************************************************)
(* The inputs of the model.                                                *)
(***************************************************************************)
kA == <<"a">>
kB == <<"b">>

dummyStructWithCycle == "slowjsonmutator.dummyStructWithCycle"
kAttr == <<"A", "t", "t", "r">>

\* the values the caller of Modify holds before the call: a map {"b": "w"},
\* a slice ["x", "y", "z"] of capacity 3, and two structs a and b with
\* a.Attr = &b and b.Attr = &a
CallerHeap ==
    <<MapObject([k \in {kB} |-> Scalar("w")]),
      ArrayObject(<<Scalar("x"), Scalar("y"), Scalar("z")>>),
      StructObject(dummyStructWithCycle,
                   <<Field(kAttr, PtrRef(dummyStructWithCycle, 4))>>),
      StructObject(dummyStructWithCycle,
                   <<Field(kAttr, PtrRef(dummyStructWithCycle, 3))>>)>>
callerMap == MapRef(1)
callerSlice == SliceRef(2, 3)
\* the copy of a that the caller hands to Set
callerStruct == StructVal(dummyStructWithCycle, CallerHeap[3].f)

\* the input texts of Modify, by the documents they encode:
\*   {"a": "s", "b": null}   {"a": ["x", "y", "z"]}   {"a": {"b": "s"}}
\*   [{"b": "s"}, "y"]   []   {}   null   and the truncated text {
Inputs ==
    { DObject([k \in {kA, kB} |-> IF k = kA THEN DScalar("s") ELSE DNull]),
      DObject([k \in {kA} |-> DArray(<<DScalar("x"), DScalar("y"), DScalar("z")>>)]),
      DObject([k \in {kA} |-> DObject([j \in {kB} |-> DScalar("s")])]),
      DArray(<<DObject([j \in {kB} |-> DScalar("s")]), DScalar("y")>>),
      DArray(<<>>),
      DObject(<<>>),
      DNull,
      DTruncated }

\* the path texts of the modifications
ValidPaths ==
    { <<"a">>, <<"b">>,
      <<"a", ".", "b">>,
      <<"a", ".", "a", ".", "b">>,
      <<"b", ".", "a", ".", "b">>,
      <<"a", "[", "0", "]">>, <<"a", "[", "1", "]">>, <<"a", "[", "2", "]">>,
      <<"a", "[", "3", "]">>,
      <<"[", "0", "]">>, <<"[", "1", "]">>,
      <<"[", "0", "]", ".", "b">>,
      <<"a", "[", "0", "]", ".", "b">> }
InvalidPaths == { <<"a", ".">> }

Modifications ==
    {Remove(p) : p \in ValidPaths \cup InvalidPaths}
    \cup {Set(p, Scalar("v")) : p \in ValidPaths \cup InvalidPaths}
    \cup {Set(<<"a">>, callerMap), Set(<<"a", ".", "b">>, callerMap),
          Set(<<"a">>, callerSlice), Set(<<"a">>, callerStruct)}

ModLists == UNION {[1..n -> Modifications] : n \in 0..MaxMods}

\* an input whose sequence fills its backing array of 32 elements, and the
\* modifications run on it: the Set at index 32 appends, and the capacity
\* that append grows the array to depends on the release
GrowInput == DArray([j \in 1..32 |-> DScalar("x")])
GrowPath == <<"[", "3", "2", "]">>
GrowLists ==
    UNION {[1..n -> {Set(GrowPath, Scalar("v")), Remove(<<"[", "0", "]">>)}] :
              n \in 1..MaxMods}

ModPaths == ValidPaths \cup InvalidPaths \cup {GrowPath}

\* the characters of the exhaustively enumerated path texts
ParseAlphabet == {"a", "_", "3", ".", "[", "]", "\""}

\* texts outside the enumeration: an index one more than the largest int, an
\* index of as many digits that is small, the mixed paths of the tests, and
\* texts with a control character, DEL, an invalid UTF-8 byte, a printable
\* rune of several bytes, one that is not printable, or one that is
\* printable from some release on (U+1FAD0 from Go 1.16, U+A7C0 from Go 1.21)
LongPaths ==
    { <<"[", "9", "2", "2", "3", "3", "7", "2", "0", "3", "6",
        "8", "5", "4", "7", "7", "5", "8", "0", "8", "]">>,
      <<"[", "0", "0", "0", "0", "0", "0", "0", "0", "0", "0",
        "0", "0", "0", "0", "0", "0", "0", "0", "0", "7", "]">>,
      <<"[", "3", "4", "]", "[", "9", "]">>,
      <<"k", "[", "0", "]", ".", "q", "[", "2", "]">>,
      <<"k", "[", "0", "]", ".", "n", "a", "m", "e">>,
      <<"a", "\n">>,
      <<"a", "\t", "b">>,
      <<Byte(0)>>,
      <<"a", Byte(127)>>,
      <<Byte(7), "\r", "\f">>,
      <<Byte(255), "[", "0", "]">>,
      <<Byte(195), Byte(169)>>,
      <<"a", Byte(194), Byte(160)>>,
      <<Byte(240), Byte(159), Byte(152), Byte(128)>>,
      <<Byte(226), Byte(128), Byte(168), "b">>,
      <<Byte(195), "a">>,
      <<Byte(237), Byte(160), Byte(128)>>,
      <<Byte(206), Byte(145), "[">>,
      <<Byte(240), Byte(144), Byte(128), Byte(128)>>,
      <<Byte(240), Byte(159), Byte(171), Byte(144)>>,
      <<Byte(234), Byte(159), Byte(128), Byte(127)>> }

ParseInputs ==
    UNION {[1..n -> ParseAlphabet] : n \in 0..MaxLen} \cup LongPaths

(***************************************************************************)
(* parseJSONPath, one loop iteration per step.                             *)
(***************************************************************************)
NoResult == [segments |-> <<>>, err |-> NoErr]

\* the regular expression check at the head of parseJSONPath
ParseCheck ==
    /\ ppc = "check"
    /\ IF ~naiveJSONPathRegexp(path)
       THEN /\ ppc' = "done"
            /\ presult' = [segments |-> <<>>, err |-> MalformedPathError(path)]
            /\ UNCHANGED <<toParse, pathSegments>>
       ELSE /\ ppc' = "loop"
            /\ toParse' = path
            /\ pathSegments' = <<>>
            /\ UNCHANGED presult
    /\ UNCHANGED <<path, heap, input, mods, untypedParsed, i, pc, result,
                   release>>

\* one iteration of the loop: for toParse != ""
ParseIterate ==
    /\ ppc = "loop"
    /\ toParse # <<>>
    /\ LET r == parseFirstSegment(toParse)
       IN IF r.err # NoErr
          THEN /\ ppc' = "done"
               /\ presult' = [segments |-> <<>>,
                              err |-> Wrap("failed to parse json path: ", r.err)]
               /\ UNCHANGED <<toParse, pathSegments>>
          ELSE /\ toParse' = r.rest
               /\ pathSegments' = Append(pathSegments, r.segment)
               /\ UNCHANGED <<ppc, presult>>
    /\ UNCHANGED <<path, heap, input, mods, untypedParsed, i, pc, result,
                   release>>

\* the loop ends: return pathSegments, nil
ParseReturn ==
    /\ ppc = "loop"
    /\ toParse = <<>>
    /\ ppc' = "done"
    /\ presult' = [segments |-> pathSegments, err |-> NoErr]
    /\ UNCHANGED <<path, toParse, pathSegments,
                   heap, input, mods, untypedParsed, i, pc, result, release>>

(***************************************************************************)
(* Modify.                                                                 *)
(***************************************************************************)
\* the first of the releases in which append grows a slice as it does in
\* release rel (GrowCap, RoundUpSize)
GrowsAs(rel) == IF rel < 18 THEN 13 ELSE IF rel < 22 THEN 18 ELSE 22

\* the first of the releases whose encoder looks for cycles as the one of
\* release rel does (CycleKinds)
EncodesAs(rel) == IF rel < 15 THEN 13 ELSE IF rel < 16 THEN 15 ELSE 16

\* the releases of outs, which holds what a step returns in releases the
\* program can be of, that return what release rel returns
SameAs(outs, rel) == {x \in DOMAIN outs : outs[x] = outs[rel]}

\* one release of outs for each of the different things that they return
Representatives(outs) ==
    {rel \in DOMAIN outs : rel = CHOOSE x \in SameAs(outs, rel) : TRUE}

\* the releases the program can be of that return what rel of outs returns;
\* outs holds what the step returns in the first release of each group of
\* releases that do the same, first[x] being the first of the group of x
Narrowed(outs, rel, first) ==
    {x \in release : first[x] \in SameAs(outs, rel)}

\* json.Unmarshal has returned r, in the releases of the set narrowed
Unmarshalled(r, narrowed) ==
    /\ release' = narrowed
    /\ heap' = r.heap
    /\ untypedParsed' = r.val
    /\ IF r.err # NoErr
       THEN /\ pc' = "returned"
            /\ result' = [output |-> EmptyText, err |-> r.err, line |-> 170]
       ELSE /\ pc' = "loop"
            /\ UNCHANGED result

\* the program is of one of the releases of outs
UnmarshalReturns(outs) ==
    \E rel \in Representatives(outs) :
        Unmarshalled(outs[rel],
                     Narrowed(outs, rel, [x \in Releases |-> GrowsAs(x)]))

\* json.Unmarshal of the input
ModifyUnmarshal ==
    /\ pc = "start"
    /\ UnmarshalReturns([rel \in {GrowsAs(x) : x \in release} |->
                             Unmarshal(rel, heap, input)])
    /\ UNCHANGED <<input, mods, i, path, toParse, pathSegments, ppc, presult>>

\* a slip: only the error of the last modification makes Modify return
AppliedGoesOn(r, narrowed) ==
    /\ release' = narrowed
    /\ heap' = r.heap
    /\ untypedParsed' = r.val
    /\ i' = i + 1
    /\ IF r.err # NoErr /\ i + 1 = Len(mods)
       THEN /\ pc' = "returned"
            /\ result' = [output |-> EmptyText, err |-> r.err, line |-> 176]
       ELSE UNCHANGED <<pc, result>>

\* the modification has returned r, in the releases of the set narrowed
AppliedReturned(r, narrowed) ==
    /\ release' = narrowed
    /\ heap' = r.heap
    /\ untypedParsed' = r.val
    /\ i' = i + 1
    /\ IF r.err # NoErr
       THEN /\ pc' = "returned"
            /\ result' = [output |-> EmptyText, err |-> r.err, line |-> 176]
       ELSE UNCHANGED <<pc, result>>

\* the program is of one of the releases of outs
ApplyReturns(outs) ==
    \E rel \in Representatives(outs) :
        AppliedReturned(outs[rel],
                        Narrowed(outs, rel, [x \in Releases |-> GrowsAs(x)]))

\* one iteration of: for _, modification := range modifications
ModifyApply ==
    /\ pc = "loop"
    /\ i < Len(mods)
    /\ ApplyReturns(Apply({GrowsAs(x) : x \in release}, heap, mods[i + 1],
                          untypedParsed))
    /\ UNCHANGED <<input, mods, path, toParse, pathSegments, ppc, presult>>

\* json.Marshal has ended with r, in the releases of the set narrowed
Marshalled(r, narrowed) ==
    /\ release' = narrowed
    /\ IF r.err = StackOverflow
       THEN /\ pc' = "crashed"
            /\ UNCHANGED result
       ELSE /\ pc' = "returned"
            /\ result' = IF r.err # NoErr
                         THEN [output |-> EmptyText, err |-> r.err, line |-> 182]
                         ELSE [output |-> r.output, err |-> r.err, line |-> 184]

\* the program is of one of the releases of outs
MarshalReturns(outs) ==
    \E rel \in Representatives(outs) :
        Marshalled(outs[rel],
                   Narrowed(outs, rel, [x \in Releases |-> EncodesAs(x)]))

\* json.Marshal of the data after the last modification
ModifyMarshal ==
    /\ pc = "loop"
    /\ i = Len(mods)
    /\ MarshalReturns([rel \in {EncodesAs(x) : x \in release} |->
                          Marshal(rel, heap, untypedParsed)])
    /\ UNCHANGED <<heap, input, mods, untypedParsed, i,
                   path, toParse, pathSegments, ppc, presult>>

(***************************************************************************)
(* The specifications.                                                     *)
(***************************************************************************)
NoOutput == [output |-> EmptyText, err |-> NoErr, line |-> 0]

\* a call of Modify, with whatever input text and modifications
Init ==
    /\ heap = CallerHeap
    /\ \/ input \in Inputs /\ mods \in ModLists
       \/ input = GrowInput /\ mods \in GrowLists
    /\ untypedParsed = Nil
    /\ i = 0
    /\ pc = "start"
    /\ result = NoOutput
    /\ release = Releases
    /\ path = <<>>
    /\ toParse = <<>>
    /\ pathSegments = <<>>
    /\ ppc = "idle"
    /\ presult = NoResult

Next == ModifyUnmarshal \/ ModifyApply \/ ModifyMarshal

Spec == Init /\ [][Next]_vars

\* a call of parseJSONPath, with whatever text
InitParse ==
    /\ path \in ParseInputs
    /\ toParse = <<>>
    /\ pathSegments = <<>>
    /\ ppc = "check"
    /\ presult = NoResult
    /\ heap = <<>>
    /\ input = DNull
    /\ mods = <<>>
    /\ untypedParsed = Nil
    /\ i = 0
    /\ pc = "idle"
    /\ result = NoOutput
    /\ release = Releases

NextParse == ParseCheck \/ ParseIterate \/ ParseReturn

SpecParse == InitParse /\ [][NextParse]_vars

(***************************************************************************)
(* What the properties speak of: the modification the loop of Modify ran   *)
(* last, the data before it, and the location its path denotes.            *)
(***************************************************************************)
\* what parseJSONPath returns for each path of the modifications
ParsedPaths == [p \in ModPaths |-> parseJSONPath(p)]

\* modification(toModify) in release rel, with the path of the modification
\* looked up in ParsedPaths
Applied(rel, h, modification, toModify) ==
    ApplyParsed(rel, h, modification, toModify,
                ParsedPaths[modification.path])

\* a release of the set release: in the run so far they all did the same
Built == CHOOSE rel \in release : TRUE

\* of the releases that the program can be of, the first of each group whose
\* append and whose encoder do the same
Builds ==
    {rel \in release :
        \A x \in release :
            (GrowsAs(x) = GrowsAs(rel) /\ EncodesAs(x) = EncodesAs(rel))
                => rel <= x}

RECURSIVE Outcome(_)
\* what the k-th modification returned, the ones before it having succeeded;
\* the first failure, from the failing modification on: [heap, val, err]
Outcome(k) ==
    IF k = 0 THEN Unmarshal(Built, CallerHeap, input)
    ELSE LET s == Outcome(k - 1)
         IN IF s.err # NoErr THEN s ELSE Applied(Built, s.heap, mods[k], s.val)

\* a modification has run, and returned nil or an error
Ran == pc \in {"loop", "returned"} /\ i >= 1
Failed == Ran /\ pc = "returned" /\ result.line = 176
Succeeded == Ran /\ ~Failed

\* the modification that ran last, its segments, and the data it was given
LastMod == mods[i]
LastParse == ParsedPaths[LastMod.path]
LastSegments == LastParse.segments
Before == Outcome(i - 1)
RanSet == Ran /\ LastMod.kind = "Set" /\ LastParse.err = NoErr
RanRemove == Ran /\ LastMod.kind = "Remove" /\ LastParse.err = NoErr

\* where a walk stopped: at node, with the segments rest left to follow
Stop(status, node, rest) == [status |-> status, node |-> node, rest |-> rest]

RECURSIVE Walk(_, _, _)
\* reading the path segs from node: attribute segments through mappings,
\* index segments through sequences
Walk(h, node, segs) ==
    IF segs = <<>> THEN Stop("found", node, segs)
    ELSE
    LET head == segs[1]
    IN
    CASE node.t = "map" ->
            IF head.attribute = <<>> THEN Stop("object by index", node, segs)
            ELSE IF head.attribute[1] \notin DOMAIN h[node.id].m
            THEN Stop("missing key", node, segs)
            ELSE Walk(h, h[node.id].m[head.attribute[1]], Tail(segs))
      [] node.t = "slice" ->
            IF head.index = <<>> THEN Stop("array by attribute", node, segs)
            ELSE IF head.index[1] = node.len THEN Stop("index at length", node, segs)
            ELSE IF head.index[1] > node.len THEN Stop("index beyond length", node, segs)
            ELSE Walk(h, h[node.id].e[head.index[1] + 1], Tail(segs))
      [] node.t = "nil" -> Stop("null", node, segs)
      [] OTHER -> Stop("scalar", node, segs)

\* the walk of the last modification's path in the data before it, and after
WalkBefore == LET b == Before IN Walk(b.heap, b.val, LastSegments)
WalkAfter == Walk(heap, untypedParsed, LastSegments)

\* the documents before and after the last modification
DocBefore == LET b == Before IN Doc(b.heap, b.val)
DocAfter == Doc(heap, untypedParsed)

RECURSIVE SetToSeq(_)
SetToSeq(S) ==
    IF S = {} THEN <<>>
    ELSE LET x == CHOOSE y \in S : TRUE IN <<x>> \o SetToSeq(S \ {x})

\* the members of a map or the elements of a slice
Children(h, v) ==
    CASE v.t = "map" ->
            LET ks == SetToSeq(DOMAIN h[v.id].m)
            IN [j \in 1..Len(ks) |-> h[v.id].m[ks[j]]]
      [] v.t = "slice" -> SubSeq(h[v.id].e, 1, v.len)
      [] OTHER -> <<>>

RECURSIVE Occurrences(_, _, _)
RECURSIVE OccurrencesOfAll(_, _, _)
\* the maps and backing arrays met unfolding v, one entry for each path to one
Occurrences(h, v, fuel) ==
    IF v.t \notin {"map", "slice"} THEN <<>>
    ELSE IF fuel = 0 THEN <<v.id>>
    ELSE <<v.id>> \o OccurrencesOfAll(h, Children(h, v), fuel - 1)
OccurrencesOfAll(h, vs, fuel) ==
    IF vs = <<>> THEN <<>>
    ELSE Occurrences(h, vs[1], fuel) \o OccurrencesOfAll(h, Tail(vs), fuel)

\* v is a tree: no map and no backing array is reached along two paths
IsTree(h, v) ==
    LET o == Occurrences(h, v, Len(h) + 1)
    IN \A a, b \in 1..Len(o) : a # b => o[a] # o[b]

RECURSIVE DocDelete(_, _)
\* document d without the member or element that segs addresses in it
DocDelete(d, segs) ==
    IF d.t = "object"
    THEN LET key == segs[1].attribute[1]
         IN IF Len(segs) = 1
            THEN DObject([k \in DOMAIN d.m \ {key} |-> d.m[k]])
            ELSE DObject([k \in DOMAIN d.m |->
                             IF k = key THEN DocDelete(d.m[k], Tail(segs))
                             ELSE d.m[k]])
    ELSE LET idx == segs[1].index[1]
         IN IF Len(segs) = 1
            THEN DArray([j \in 1..(Len(d.e) - 1) |->
                            IF j <= idx THEN d.e[j] ELSE d.e[j + 1]])
            ELSE DArray([j \in 1..Len(d.e) |->
                            IF j = idx + 1 THEN DocDelete(d.e[j], Tail(segs))
                            ELSE d.e[j]])

RECURSIVE Chain(_, _)
\* one new container for each segment of segs, around the document d
Chain(segs, d) ==
    IF segs = <<>> THEN d
    ELSE IF segs[1].attribute # <<>>
    THEN DObject([k \in {segs[1].attribute[1]} |-> Chain(Tail(segs), d)])
    ELSE DArray(<<Chain(Tail(segs), d)>>)

\* the first n segments of segs
Take(segs, n) == SubSeq(segs, 1, n)

(***************************************************************************)
(* Properties of Set and Remove.                                           *)
(***************************************************************************)
\* C1: whenever Set(p, v) succeeds, reading p in the resulting data, attribute
\* segments through mappings and index segments through sequences, finds a
\* value deeply equal to v.
C1_SetThenRead ==
    (RanSet /\ Succeeded) =>
        /\ WalkAfter.status = "found"
        /\ Doc(heap, WalkAfter.node) = Doc(heap, LastMod.value)

\* a Set of a path of two segments or more succeeded, on a location that was absent
C1_Witness ==
    /\ RanSet /\ Succeeded
    /\ Len(LastSegments) >= 2
    /\ WalkBefore.status = "missing key"

AbsentStatuses == {"missing key", "null", "index at length", "index beyond length"}

\* C2: Remove(p) when p denotes an absent location (a missing last or
\* intermediate key, a null node at any depth, an index >= the length) returns
\* no error and leaves data deeply equal to the data before.
C2_RemoveAbsentIsNoOp ==
    RanRemove =>
        LET b == Before
            w == Walk(b.heap, b.val, LastSegments)
        IN w.status \in AbsentStatuses =>
              /\ Succeeded
              /\ DocAfter = Doc(b.heap, b.val)

\* a Remove met a null node below the root and returned
C2_Witness ==
    /\ RanRemove /\ Succeeded
    /\ WalkBefore.status = "null"
    /\ Len(WalkBefore.rest) < Len(LastSegments)
    /\ Len(WalkBefore.rest) >= 2

\* C3: when p addresses an existing object member or array element of a tree,
\* Remove(p) succeeds and leaves that tree with exactly that member or element
\* deleted: an array is one shorter, its other elements in their order, an
\* object lacks only that key, and all the rest is as before.
C3_RemoveDeletesExactly ==
    RanRemove =>
        LET b == Before
            segs == LastSegments
            w == Walk(b.heap, b.val, segs)
        IN (w.status = "found" /\ IsTree(b.heap, b.val)) =>
              /\ Succeeded
              /\ DocAfter = DocDelete(Doc(b.heap, b.val), segs)

\* a Remove deleted an element that is not the last of an array of three
C3_Witness ==
    /\ RanRemove /\ Succeeded
    /\ WalkBefore.status = "found"
    /\ LET parent == Walk(Before.heap, Before.val,
                          Take(LastSegments, Len(LastSegments) - 1)).node
       IN /\ parent.t = "slice"
          /\ parent.len = 3
          /\ LastSegments[Len(LastSegments)].index[1] < 2

\* whether every index segment of segs is 0
AllIndicesZero(segs) ==
    \A k \in 1..Len(segs) : segs[k].index # <<>> => segs[k].index[1] = 0

\* the sequences of the data before that the walk of a Set goes through: the
\* number of segments that lead to each
SequencesWalked ==
    LET b == Before
        segs == LastSegments
    IN {k \in 0..(Len(segs) - 1) :
           LET w == Walk(b.heap, b.val, Take(segs, k))
           IN /\ w.status = "found"
              /\ w.node.t = "slice"
              /\ segs[k + 1].index # <<>>}

\* C4: a Set that reaches a sequence of length n with head index i fails with
\* 'out of bounds insertion index' when i > n or i < 0; when it succeeds, the
\* sequence has length n and an element at i if i < n, and length n + 1 with
\* the new element last if i = n; with i = n it succeeds when every index
\* segment after it is 0.
C4_SetIndexBounds ==
    RanSet =>
        LET b == Before
            segs == LastSegments
        IN
        \A k \in SequencesWalked :
            LET seq == Walk(b.heap, b.val, Take(segs, k)).node
                idx == segs[k + 1].index[1]
                after == Walk(heap, untypedParsed, Take(segs, k))
                rest == SubSeq(segs, k + 2, Len(segs))
            IN /\ idx > seq.len => (Failed /\ result.err = ErrOutOfBounds)
               /\ \A rel \in {GrowsAs(x) : x \in release} :
                    set(rel, b.heap, seq, <<indexSegment(-1)>> \o rest,
                        LastMod.value).err = ErrOutOfBounds
               /\ (idx = seq.len /\ AllIndicesZero(rest)) => Succeeded
               /\ (idx <= seq.len /\ Succeeded) =>
                    /\ after.status = "found"
                    /\ after.node.t = "slice"
                    /\ after.node.len = IF idx < seq.len THEN seq.len
                                        ELSE seq.len + 1
                    /\ Walk(heap, untypedParsed,
                            Take(segs, k + 1)).status = "found"

\* a Set appended to a sequence of three elements
C4_Witness ==
    /\ RanSet /\ Succeeded
    /\ \E k \in SequencesWalked :
          LET seq == Walk(Before.heap, Before.val, Take(LastSegments, k)).node
          IN seq.len = 3 /\ LastSegments[k + 1].index[1] = 3

\* the Set that ran last left, where its walk of the data before had stopped
\* with the segments left to follow, one new container for each of them (a
\* mapping with that one key for an attribute segment, a sequence of one
\* element for an index segment) with the value innermost
Vivified(w) ==
    LET walked == Take(LastSegments, Len(LastSegments) - Len(w.rest))
    IN IF w.status = "null"
       THEN Doc(heap, Walk(heap, untypedParsed, walked).node)
            = Chain(w.rest, Doc(heap, LastMod.value))
       ELSE Doc(heap, Walk(heap, untypedParsed,
                           Append(walked, w.rest[1])).node)
            = Chain(Tail(w.rest), Doc(heap, LastMod.value))

\* C5, as claimed: when the walk of a Set reaches a null node or an absent
\* object key with segments s1..sk left, the Set makes one new container for
\* each segment left and installs v innermost.
C5_SetAlwaysVivifies ==
    RanSet =>
        LET w == WalkBefore
        IN w.status \in {"null", "missing key"} =>
              /\ Succeeded
              /\ Vivified(w)

\* C5, amended: when the walk of a Set reaches a null node or an absent
\* object key with segments s1..sk left, the Set succeeds if and only if
\* every index segment left is 0; it then has made one new container for each
\* segment left, with v innermost; with an index segment above 0 left it
\* fails with 'out of bounds insertion index' and installs nothing.
C5_SetVivifies ==
    RanSet =>
        LET w == WalkBefore
        IN w.status \in {"null", "missing key"} =>
              /\ Succeeded <=> AllIndicesZero(w.rest)
              /\ Succeeded => Vivified(w)
              /\ ~AllIndicesZero(w.rest) =>
                    /\ Failed
                    /\ result.err = ErrOutOfBounds
                    /\ untypedParsed = Nil

\* a Set built a sequence and a mapping under an absent key
C5_Witness ==
    /\ RanSet /\ Succeeded
    /\ WalkBefore.status = "missing key"
    /\ Len(WalkBefore.rest) = 3
    /\ WalkBefore.rest[2].index # <<>>
    /\ WalkBefore.rest[3].attribute # <<>>

(***************************************************************************)
(* Properties of Modify and of the errors of Set and Remove.               *)
(***************************************************************************)
RECURSIVE FirstFailure(_, _, _)
\* the modifications from the k-th on, applied in order to what s holds by a
\* program of release rel, up to the first that fails: its number (0 when
\* none fails) and what the last one applied returned
FirstFailure(rel, k, s) ==
    IF k > Len(mods) THEN [index |-> 0, outcome |-> s]
    ELSE LET r == Applied(rel, s.heap, mods[k], s.val)
         IN IF r.err # NoErr THEN [index |-> k, outcome |-> r]
            ELSE FirstFailure(rel, k + 1, r)

\* C6: Modify applies the modifications from left to right, each to the data
\* its predecessor returned, and stops at the first that fails: it returns the
\* error of the lowest-index modification that fails on the data the ones
\* before it produced (a path parse error included), applies none after it,
\* and returns the empty text.
C6_FirstFailureStops ==
    /\ pc = "loop" =>
          LET o == Outcome(i)
          IN /\ o.err = NoErr
             /\ heap = o.heap
             /\ untypedParsed = o.val
    /\ (pc = "returned" /\ result.line # 170) =>
          LET f == FirstFailure(Built, 1, Unmarshal(Built, CallerHeap, input))
          IN IF f.index # 0
             THEN /\ i = f.index
                  /\ result.line = 176
                  /\ result.err = f.outcome.err
                  /\ result.output = EmptyText
                  /\ heap = f.outcome.heap
             ELSE /\ i = Len(mods)
                  /\ result.line \in {182, 184}
                  /\ heap = f.outcome.heap

\* Modify returned the error of its first modification, a path parse error,
\* and did not run the second
C6_Witness ==
    /\ pc = "returned"
    /\ result.line = 176
    /\ i = 1
    /\ Len(mods) = 2
    /\ result.err = MalformedPathError(mods[1].path)
    /\ parseJSONPath(mods[2].path).err = NoErr

\* C7: a Set or a Remove whose walk reaches a mapping with an index segment at
\* the head fails with 'cannot address content of JSON object by index', and
\* one that reaches a sequence with an attribute segment at the head fails with
\* 'cannot address content of JSON array by attribute', empty containers
\* included.
C7_KindMismatch ==
    (Ran /\ LastParse.err = NoErr) =>
        LET w == WalkBefore
        IN /\ w.status = "object by index" =>
                 (Failed /\ result.err = ErrObjectByIndex)
           /\ w.status = "array by attribute" =>
                 (Failed /\ result.err = ErrArrayByAttribute)

\* a Remove addressed an empty sequence by attribute and failed
C7_Witness ==
    /\ RanRemove /\ Failed
    /\ WalkBefore.status = "array by attribute"
    /\ WalkBefore.node.len = 0

\* C8: a Set or a Remove fails with 'invalid path' exactly when its walk
\* reaches a scalar with a segment or more left; a Set whose last segment
\* addresses an existing scalar succeeds and puts v in its place.
C8_InvalidPath ==
    (Ran /\ LastParse.err = NoErr) =>
        LET w == WalkBefore
            after == WalkAfter
        IN /\ (Failed /\ result.err = ErrInvalidPath) <=> w.status = "scalar"
           /\ (/\ LastMod.kind = "Set"
               /\ w.status = "found"
               /\ w.node.t = "scalar") =>
                   /\ Succeeded
                   /\ after.status = "found"
                   /\ after.node = LastMod.value

\* a Set met a scalar below the root with segments left, and failed
C8_Witness ==
    /\ RanSet /\ Failed
    /\ result.err = ErrInvalidPath
    /\ WalkBefore.status = "scalar"
    /\ Len(WalkBefore.rest) < Len(LastSegments)

(***************************************************************************)
(* Properties of parseJSONPath.                                            *)
(***************************************************************************)
\* the grammar of paths as an automaton: the state after reading c in state q
GrammarStep(q, c) ==
    CASE q = "start" ->
            IF c \in AttrChars THEN "attribute"
            ELSE IF c = "[" THEN "open" ELSE "reject"
      [] q = "attribute" ->
            IF c \in AttrChars THEN "attribute"
            ELSE IF c = "." THEN "dot"
            ELSE IF c = "[" THEN "open" ELSE "reject"
      [] q = "dot" -> IF c \in AttrChars THEN "attribute" ELSE "reject"
      [] q = "open" -> IF c \in Digits THEN "digits" ELSE "reject"
      [] q = "digits" ->
            IF c \in Digits THEN "digits"
            ELSE IF c = "]" THEN "closed" ELSE "reject"
      [] q = "closed" ->
            IF c = "." THEN "dot"
            ELSE IF c = "[" THEN "open" ELSE "reject"
      [] OTHER -> "reject"

RECURSIVE GrammarRun(_, _)
GrammarRun(q, s) ==
    IF s = <<>> THEN q ELSE GrammarRun(GrammarStep(q, s[1]), Tail(s))

\* s is a path of the grammar: a first segment that is an attribute token or
\* an index token, then segments that are '.' and an attribute token or an
\* index token
InGrammar(s) == GrammarRun("start", s) \in {"attribute", "closed"}

\* the digits of the index token that opens at position k of s
IndexDigits(s, k) ==
    LET close == CHOOSE j \in (k + 1)..Len(s) :
                    s[j] = "]" /\ \A m \in (k + 1)..(j - 1) : s[m] # "]"
    IN SubSeq(s, k + 1, close - 1)

\* every index of the grammar path s fits the machine integer
IndicesFit(s) ==
    \A k \in 1..Len(s) : s[k] = "[" => ~OutOfRange(IndexDigits(s, k))

\* the position of hexadecimal digit c in LowerHex, from 0
HexValue(c) == (CHOOSE k \in 1..16 : LowerHex[k] = c) - 1

\* the character an escape sequence of %q that begins with \ and c stands
\* for, x aside
Unescape(c) ==
    CASE c = "a" -> Byte(7)
      [] c = "b" -> Byte(8)
      [] c = "f" -> Byte(12)
      [] c = "n" -> Byte(10)
      [] c = "r" -> Byte(13)
      [] c = "t" -> Byte(9)
      [] c = "v" -> Byte(11)
      [] OTHER -> c

RECURSIVE HexNumber(_, _)
\* the number that the hexadecimal digits ds write, after acc
HexNumber(ds, acc) ==
    IF ds = <<>> THEN acc
    ELSE HexNumber(Tail(ds), acc * 16 + HexValue(ds[1]))

\* the UTF-8 encoding of rune r
EncodeRune(r) ==
    IF r < 128 THEN <<Byte(r)>>
    ELSE IF r < 2048
    THEN <<Byte(192 + (r \div 64)), Byte(128 + (r % 64))>>
    ELSE IF r < 65536
    THEN <<Byte(224 + (r \div 4096)), Byte(128 + ((r \div 64) % 64)),
           Byte(128 + (r % 64))>>
    ELSE <<Byte(240 + (r \div 262144)), Byte(128 + ((r \div 4096) % 64)),
           Byte(128 + ((r \div 64) % 64)), Byte(128 + (r % 64))>>

RECURSIVE UnquoteChars(_)
UnquoteChars(inner) ==
    IF inner = <<>> THEN <<>>
    ELSE IF inner[1] # "\\"
    THEN <<inner[1]>> \o UnquoteChars(Tail(inner))
    ELSE IF inner[2] = "x"
    THEN <<Byte(HexNumber(SubSeq(inner, 3, 4), 0))>>
         \o UnquoteChars(SubSeq(inner, 5, Len(inner)))
    ELSE IF inner[2] = "u"
    THEN EncodeRune(HexNumber(SubSeq(inner, 3, 6), 0))
         \o UnquoteChars(SubSeq(inner, 7, Len(inner)))
    ELSE IF inner[2] = "U"
    THEN EncodeRune(HexNumber(SubSeq(inner, 3, 10), 0))
         \o UnquoteChars(SubSeq(inner, 11, Len(inner)))
    ELSE <<Unescape(inner[2])>> \o UnquoteChars(SubSeq(inner, 3, Len(inner)))

\* the text between the quotes of a %q text, its escapes undone
Unquote(q) ==
    IF Len(q) < 2 THEN <<>> ELSE UnquoteChars(SubSeq(q, 2, Len(q) - 1))

MalformedPathMessage == "cannot parse json path [%q], it doesn't seem valid"

\* whether the text s is of printable ASCII characters other than " and \,
\* which %q writes as they are
Plain(s) == \A k \in 1..Len(s) : s[k] \in PrintableChars \ {"\"", "\\"}

\* the message of error e carries the text s: what its %q wrote, in each of
\* the releases the program can be of, is one quoted text whose escape
\* sequences stand for the characters of s, and is s between two quotes when
\* s is plain
Carries(e, s) ==
    \A rel \in release :
        /\ Len(ErrorText(rel, e).quoted) = 1
        /\ Unquote(ErrorText(rel, e).quoted[1]) = s
        /\ Plain(s) => ErrorText(rel, e).quoted[1] = <<"\"">> \o s \o <<"\"">>

\* C9, as claimed: parseJSONPath accepts a text if and only if it is a path of
\* the grammar, and every other text fails with the malformed-path error that
\* carries the text.
C9_AcceptsIffGrammar ==
    ppc = "done" =>
        /\ presult.err = NoErr <=> InGrammar(path)
        /\ ~InGrammar(path) =>
              /\ presult.err.msg = MalformedPathMessage
              /\ Carries(presult.err, path)

\* C9, amended: parseJSONPath fails with the malformed-path error if and only
\* if the text is no path of the grammar; the message then carries the text
\* quoted: between two quotes as it is when it is of plain characters, and
\* with escape sequences that stand for its characters otherwise, in every
\* release.  It accepts a text if and only if the text is a path of the
\* grammar and every index of it fits the machine integer.
C9_RejectsIffNotGrammar ==
    ppc = "done" =>
        /\ presult.err.msg = MalformedPathMessage <=> ~InGrammar(path)
        /\ ~InGrammar(path) =>
              /\ presult.segments = <<>>
              /\ Carries(presult.err, path)
        /\ presult.err = NoErr <=> (InGrammar(path) /\ IndicesFit(path))

\* parseJSONPath rejected 'a.[3]' with the malformed-path error
C9_Witness ==
    /\ ppc = "done"
    /\ path = <<"a", ".", "[", "3", "]">>
    /\ presult.err.msg = MalformedPathMessage
    /\ ErrorText(Built, presult.err).quoted
          = <<<<"\"", "a", ".", "[", "3", "]", "\"">>>>

RECURSIVE ValueOf(_)
\* the number that the decimal digits ds write
ValueOf(ds) ==
    IF ds = <<>> THEN 0
    ELSE 10 * ValueOf(SubSeq(ds, 1, Len(ds) - 1)) + DigitValue(ds[Len(ds)])

RECURSIVE Describes(_, _, _)
\* segs are the tokens of the text s from left to right, one segment for each:
\* Attribute(name) for an attribute token, name the whole run of attribute
\* characters up to the next '.' or '[', and Index(n) for a token [n]
Describes(segs, s, first) ==
    IF segs = <<>> THEN s = <<>>
    ELSE
    LET seg == segs[1]
    IN
    /\ (seg.attribute = <<>>) # (seg.index = <<>>)
    /\ IF seg.attribute # <<>>
       THEN LET name == seg.attribute[1]
                t == IF first THEN s ELSE SubSeq(s, 2, Len(s))
            IN /\ first \/ (s # <<>> /\ s[1] = ".")
               /\ name # <<>>
               /\ \A k \in 1..Len(name) : name[k] \in AttrChars
               /\ Len(t) >= Len(name)
               /\ SubSeq(t, 1, Len(name)) = name
               /\ Len(t) > Len(name) => t[Len(name) + 1] \in {".", "["}
               /\ Describes(Tail(segs), SubSeq(t, Len(name) + 1, Len(t)), FALSE)
       ELSE /\ s # <<>>
            /\ s[1] = "["
            /\ \E close \in 3..Len(s) :
                  /\ s[close] = "]"
                  /\ \A k \in 2..(close - 1) : s[k] \in Digits
                  /\ seg.index[1] = ValueOf(SubSeq(s, 2, close - 1))
                  /\ seg.index[1] >= 0
                  /\ Describes(Tail(segs), SubSeq(s, close + 1, Len(s)), FALSE)

\* C10: for a path of the grammar whose indices fit the machine integer,
\* parseJSONPath returns a non-empty sequence of segments, one for each token
\* in their order, each an attribute or an index and not both.
C10_SegmentsAreTokens ==
    (ppc = "done" /\ InGrammar(path) /\ IndicesFit(path)) =>
        /\ presult.err = NoErr
        /\ Len(presult.segments) >= 1
        /\ Describes(presult.segments, path, TRUE)

\* parseJSONPath segmented a path of attributes and indices: k[0].q[2]
C10_Witness ==
    /\ ppc = "done"
    /\ path = <<"k", "[", "0", "]", ".", "q", "[", "2", "]">>
    /\ presult.segments = <<stringSegment(<<"k">>), indexSegment(0),
                            stringSegment(<<"q">>), indexSegment(2)>>

(***************************************************************************)
(* Segments written back as text, and parsed again.                        *)
(***************************************************************************)
\* the longest sequence of segments written back
MaxSegs == 3

\* attribute names and indices of the segments written back: a name of
\* digits only, names with '-' and '_', indices of one and of two digits
SegmentNames == { <<"a">>, <<"3">>, <<"a", "-">>, <<"_", "3">> }
SegmentIndices == {0, 7, 12}
Segments ==
    {stringSegment(n) : n \in SegmentNames}
    \cup {indexSegment(k) : k \in SegmentIndices}
SegmentSeqs == UNION {[1..n -> Segments] : n \in 1..MaxSegs}

\* the decimal digit of d
DigitChar(d) == CHOOSE c \in Digits : DigitValue(c) = d

RECURSIVE Itoa(_)
\* the decimal text of the non-negative n
Itoa(n) ==
    IF n < 10 THEN <<DigitChar(n)>>
    ELSE Itoa(n \div 10) \o <<DigitChar(n % 10)>>

RECURSIVE Stringify(_, _)
\* the text of segs: '[i]' for an index, the name for an attribute, with a
\* '.' before it when it is not the first segment
Stringify(segs, first) ==
    IF segs = <<>> THEN <<>>
    ELSE LET seg == segs[1]
             text == IF seg.index # <<>>
                     THEN <<"[">> \o Itoa(seg.index[1]) \o <<"]">>
                     ELSE IF first THEN seg.attribute[1]
                     ELSE <<".">> \o seg.attribute[1]
         IN text \o Stringify(Tail(segs), FALSE)

\* a call of parseJSONPath on the text of a sequence of segments
InitRoundTrip ==
    /\ path \in {Stringify(segs, TRUE) : segs \in SegmentSeqs}
    /\ toParse = <<>>
    /\ pathSegments = <<>>
    /\ ppc = "check"
    /\ presult = NoResult
    /\ heap = <<>>
    /\ input = DNull
    /\ mods = <<>>
    /\ untypedParsed = Nil
    /\ i = 0
    /\ pc = "idle"
    /\ result = NoOutput
    /\ release = Releases

SpecRoundTrip == InitRoundTrip /\ [][NextParse]_vars

\* C11: for every non-empty sequence of segments, with names of attribute
\* characters and non-negative indices, parseJSONPath on the text of the
\* sequence succeeds and returns the sequence.
C11_RoundTrip ==
    ppc = "done" =>
        \A segs \in SegmentSeqs :
            Stringify(segs, TRUE) = path =>
                /\ presult.err = NoErr
                /\ presult.segments = segs

\* the text [12].3[0] was parsed back to an index, the attribute 3 and an
\* index
C11_Witness ==
    /\ ppc = "done"
    /\ path = <<"[", "1", "2", "]", ".", "3", "[", "0", "]">>
    /\ path = Stringify(<<indexSegment(12), stringSegment(<<"3">>),
                          indexSegment(0)>>, TRUE)
    /\ presult.segments = <<indexSegment(12), stringSegment(<<"3">>),
                            indexSegment(0)>>

(***************************************************************************)
(* The values of the caller, and a second call of Modify.                  *)
(***************************************************************************)
\* the maps and slices that the caller handed to Set in this call
HandedValues ==
    {mods[k].value : k \in {j \in 1..Len(mods) :
                               /\ mods[j].kind = "Set"
                               /\ mods[j].value.t \in {"map", "slice"}}}

\* C13: a map or a slice that the caller handed to Set is, when Modify has
\* returned, structurally what it was before the call, whatever the later
\* modifications of the call were.
C13_CallerValuesKept ==
    pc = "returned" =>
        \A v \in HandedValues : Doc(heap, v) = Doc(CallerHeap, v)

\* Modify called a second time, after the call that returned, with the same
\* input text and the same modifications, the program being of release rel:
\* [output, err]
ModifyAgain(rel) ==
    LET u == Unmarshal(rel, heap, input)
    IN IF u.err # NoErr THEN [output |-> EmptyText, err |-> u.err]
       ELSE LET f == FirstFailure(rel, 1, u)
            IN IF f.index # 0
               THEN [output |-> EmptyText, err |-> f.outcome.err]
               ELSE LET r == Marshal(rel, f.outcome.heap, f.outcome.val)
                    IN IF r.err # NoErr
                       THEN [output |-> EmptyText, err |-> r.err]
                       ELSE [output |-> r.output, err |-> r.err]

\* C12: a second call of Modify with the same input text and the same
\* modifications, the same values of Set included, returns what the first
\* call returned: the same output or the same error.
C12_Deterministic ==
    pc = "returned" =>
        \A rel \in Builds :
            LET again == ModifyAgain(rel)
            IN /\ again.output = result.output
               /\ again.err = result.err

(***************************************************************************)
(* What a Set leaves alone.                                                *)
(***************************************************************************)
RECURSIVE OffPathKept(_, _, _)
\* the document after differs from the document before on the path segs only:
\* a mapping walked keeps its other keys and their values, a sequence walked
\* keeps its other elements where they were and grows by one only when the
\* index is its length, and a container made for the walk holds nothing else
OffPathKept(before, after, segs) ==
    IF segs = <<>> THEN TRUE
    ELSE
    LET head == segs[1]
    IN
    IF head.attribute # <<>>
    THEN LET key == head.attribute[1]
             old == IF before.t = "object" THEN before.m
                    ELSE [k \in {} |-> DNull]
         IN /\ before.t \in {"object", "null"}
            /\ after.t = "object"
            /\ DOMAIN after.m = DOMAIN old \cup {key}
            /\ \A k \in DOMAIN old : k # key => after.m[k] = old[k]
            /\ OffPathKept(IF key \in DOMAIN old THEN old[key] ELSE DNull,
                           after.m[key], Tail(segs))
    ELSE LET idx == head.index[1]
             old == IF before.t = "array" THEN before.e ELSE <<>>
         IN /\ before.t \in {"array", "null"}
            /\ after.t = "array"
            /\ idx <= Len(old)
            /\ Len(after.e) = IF idx = Len(old) THEN Len(old) + 1 ELSE Len(old)
            /\ \A j \in 1..Len(old) : j # idx + 1 => after.e[j] = old[j]
            /\ OffPathKept(IF idx < Len(old) THEN old[idx + 1] ELSE DNull,
                           after.e[idx + 1], Tail(segs))

\* C14: a Set(p, v) that succeeds on a tree changes nothing off the path p:
\* every mapping walked keeps its other keys with their values, every sequence
\* walked keeps its other elements at their indices and is one longer only
\* when the addressed index was its length, and the sub-trees off p are deeply
\* equal before and after.
C14_SetKeepsOffPath ==
    (RanSet /\ Succeeded) =>
        LET b == Before
        IN IsTree(b.heap, b.val) =>
              OffPathKept(Doc(b.heap, b.val), DocAfter, LastSegments)

\* a Set replaced an element of a sequence of three that is not its last, in
\* a mapping
C14_Witness ==
    /\ RanSet /\ Succeeded
    /\ Len(LastSegments) = 2
    /\ LastSegments[2].index # <<>>
    /\ LastSegments[2].index[1] < 2
    /\ LET b == Before
           w == Walk(b.heap, b.val, Take(LastSegments, 1))
       IN /\ IsTree(b.heap, b.val)
          /\ w.status = "found"
          /\ w.node.t = "slice"
          /\ w.node.len = 3

(***************************************************************************)
(* Digits and brackets in a path.                                          *)
(***************************************************************************)
\* a digit of s that no '[' precedes: the first of a run of digits that does
\* not start right after a '['
DigitsWithoutBracket(s) ==
    \E k \in 1..Len(s) :
        /\ s[k] \in Digits
        /\ k = 1 \/ s[k - 1] \notin (Digits \cup {"["})

\* a ']' of s that closes no '[': none before it, or another bracket between
ClosesNothing(s) ==
    \E k \in 1..Len(s) :
        /\ s[k] = "]"
        /\ ~\E j \in 1..(k - 1) :
               /\ s[j] = "["
               /\ \A m \in (j + 1)..(k - 1) : s[m] \notin {"[", "]"}

\* C15, as claimed: parseJSONPath fails with the malformed-path error on every
\* text in which digits occur without a '[' before them.
C15_DigitsNeedBracket ==
    (ppc = "done" /\ DigitsWithoutBracket(path)) =>
        presult.err.msg = MalformedPathMessage

\* C15, amended: parseJSONPath fails with the malformed-path error on every
\* text in which a ']' closes no '[', as in '3]'; digits with no bracket about
\* them are attribute characters, and a text of digits only is accepted as
\* one attribute.
C15_ClosingNeedsOpening ==
    ppc = "done" =>
        /\ ClosesNothing(path) =>
              /\ presult.err.msg = MalformedPathMessage
              /\ \A rel \in release :
                    ErrorText(rel, presult.err).quoted = <<Quote(rel, path)>>
              /\ presult.segments = <<>>
        /\ (path # <<>> /\ \A k \in 1..Len(path) : path[k] \in Digits) =>
              /\ presult.err = NoErr
              /\ presult.segments = <<stringSegment(path)>>

\* parseJSONPath rejected '3]' with the malformed-path error
C15_Witness ==
    /\ ppc = "done"
    /\ path = <<"3", "]">>
    /\ ClosesNothing(path)
    /\ presult.err.msg = MalformedPathMessage
    /\ ErrorText(Built, presult.err).quoted = <<<<"\"", "3", "]", "\"">>>>

(***************************************************************************)
(* What a Set or a Remove that fails leaves behind.                        *)
(***************************************************************************)
\* C16: when the set or remove of a modification returns an error, it returns
\* no tree with it, and the tree it was given is structurally what it was:
\* no map and no backing array that existed before the call is changed.
C16_ErrorLeavesTree ==
    (Failed /\ LastParse.err = NoErr) =>
        LET b == Before
        IN /\ untypedParsed = Nil
           /\ Doc(heap, b.val) = Doc(b.heap, b.val)
           /\ Len(heap) >= Len(b.heap)
           /\ \A k \in 1..Len(b.heap) : heap[k] = b.heap[k]

\* a Set failed on an index out of bounds two levels down, in a sequence it
\* had made under an absent key of a mapping that has other keys
C16_Witness ==
    /\ RanSet /\ Failed
    /\ result.err = ErrOutOfBounds
    /\ LET b == Before
           w == Walk(b.heap, b.val, LastSegments)
       IN /\ w.status = "missing key"
          /\ w.node.t = "map"
          /\ DOMAIN b.heap[w.node.id].m # {}
          /\ Len(heap) > Len(b.heap)

(***************************************************************************)
(* The indices a Set can make a sequence for.                              *)
(***************************************************************************)
\* C18: when the walk of a Set reaches a null node or an absent object key, a
\* sequence made for an index segment is empty, so the Set succeeds only when
\* every index segment it makes a sequence for is 0, and with an index above 0
\* it fails with 'out of bounds insertion index' and leaves the tree as it
\* was.
C18_VivifiesIndexZeroOnly ==
    RanSet =>
        LET b == Before
            w == Walk(b.heap, b.val, LastSegments)
            made == IF w.status = "null" THEN w.rest ELSE Tail(w.rest)
        IN w.status \in {"null", "missing key"} =>
              /\ Succeeded <=> AllIndicesZero(made)
              /\ ~AllIndicesZero(made) =>
                    /\ Failed
                    /\ result.err = ErrOutOfBounds
                    /\ Doc(heap, b.val) = Doc(b.heap, b.val)

\* a Set met a null node with an index above 0 among the segments left, and
\* failed
C18_Witness ==
    /\ RanSet /\ Failed
    /\ result.err = ErrOutOfBounds
    /\ LET w == WalkBefore
       IN /\ w.status = "null"
          /\ \E k \in 1..Len(w.rest) :
                w.rest[k].index # <<>> /\ w.rest[k].index[1] > 0

(***************************************************************************)
(* Termination: the calls that remove and set make, and the loop of        *)
(* parseJSONPath.                                                          *)
(***************************************************************************)
\* a call of remove or set: the kind of the node and the number of segments
Call(toModify, parsedPath) == [t |-> toModify.t, n |-> Len(parsedPath)]
\* where the list of calls was cut, fuel calls having been listed
Unfinished(parsedPath) == [t |-> "unfinished", n |-> Len(parsedPath)]

RECURSIVE removeCalls(_, _, _, _)
\* the calls of remove that remove(toModify, parsedPath) makes, itself first:
\* it calls itself at line 59 and at line 79
removeCalls(h, toModify, parsedPath, fuel) ==
    LET head == parsedPath[1]
    IN
    IF fuel = 0 THEN <<Unfinished(parsedPath)>>
    ELSE IF parsedPath = <<>> THEN <<Call(toModify, parsedPath)>>
    ELSE
    CASE /\ toModify.t = "map"
         /\ head.attribute # <<>>
         /\ Len(parsedPath) > 1
         /\ MapHas(h, toModify.id, head.attribute[1]) ->
            <<Call(toModify, parsedPath)>>
            \o removeCalls(h, MapGet(h, toModify.id, head.attribute[1]),
                           Tail(parsedPath), fuel - 1)
      [] /\ toModify.t = "slice"
         /\ head.index # <<>>
         /\ 0 <= head.index[1]
         /\ head.index[1] < toModify.len
         /\ Len(parsedPath) > 1 ->
            <<Call(toModify, parsedPath)>>
            \o removeCalls(h, SliceGet(h, toModify, head.index[1]),
                           Tail(parsedPath), fuel - 1)
      [] OTHER -> <<Call(toModify, parsedPath)>>

RECURSIVE setCalls(_, _, _, _)

\* a slip: on nil, set(toModify, parsedPath, value), with the nil it was given
\* and not the container it made
setCallsRetriesNil(h, toModify, parsedPath, fuel) ==
    LET head == parsedPath[1]
    IN
    IF fuel = 0 THEN <<Unfinished(parsedPath)>>
    ELSE IF parsedPath = <<>> THEN <<Call(toModify, parsedPath)>>
    ELSE
    CASE toModify.t = "map" /\ head.attribute # <<>> ->
            <<Call(toModify, parsedPath)>>
            \o setCalls(h, MapGet(h, toModify.id, head.attribute[1]),
                        Tail(parsedPath), fuel - 1)
      [] /\ toModify.t = "slice"
         /\ head.index # <<>>
         /\ 0 <= head.index[1]
         /\ head.index[1] <= toModify.len ->
            <<Call(toModify, parsedPath)>>
            \o setCalls(h, IF head.index[1] < toModify.len
                           THEN SliceGet(h, toModify, head.index[1])
                           ELSE Nil,
                        Tail(parsedPath), fuel - 1)
      [] toModify.t = "nil" ->
            LET deeper == IF head.attribute = <<>> THEN makeSlice(h, 0, 1)
                          ELSE makeMap(h)
            IN <<Call(toModify, parsedPath)>>
               \o setCalls(deeper.heap, toModify, parsedPath, fuel - 1)
      [] OTHER -> <<Call(toModify, parsedPath)>>

\* the calls of set that set(toModify, parsedPath, value) makes, itself first:
\* it calls itself at lines 125 and 146 and, on nil, at line 160
setCalls(h, toModify, parsedPath, fuel) ==
    LET head == parsedPath[1]
    IN
    IF fuel = 0 THEN <<Unfinished(parsedPath)>>
    ELSE IF parsedPath = <<>> THEN <<Call(toModify, parsedPath)>>
    ELSE
    CASE toModify.t = "map" /\ head.attribute # <<>> ->
            <<Call(toModify, parsedPath)>>
            \o setCalls(h, MapGet(h, toModify.id, head.attribute[1]),
                        Tail(parsedPath), fuel - 1)
      [] /\ toModify.t = "slice"
         /\ head.index # <<>>
         /\ 0 <= head.index[1]
         /\ head.index[1] <= toModify.len ->
            <<Call(toModify, parsedPath)>>
            \o setCalls(h, IF head.index[1] < toModify.len
                           THEN SliceGet(h, toModify, head.index[1])
                           ELSE Nil,
                        Tail(parsedPath), fuel - 1)
      [] toModify.t = "nil" ->
            LET deeper == IF head.attribute = <<>> THEN makeSlice(h, 0, 1)
                          ELSE makeMap(h)
            IN <<Call(toModify, parsedPath)>>
               \o setCalls(deeper.heap, deeper.val, parsedPath, fuel - 1)
      [] OTHER -> <<Call(toModify, parsedPath)>>

\* a call of Modify or a call of parseJSONPath
InitOperations == Init \/ InitParse

NextOperations ==
    \/ ModifyUnmarshal
    \/ ModifyApply
    \/ ModifyMarshal
    \/ ParseCheck
    \/ ParseIterate
    \/ ParseReturn

SpecOperations == InitOperations /\ [][NextOperations]_vars

\* the calls of set or remove of the modification that ran last, cut after
\* two calls for each segment and two more
LastCalls ==
    LET b == Before
        segs == LastSegments
        fuel == 2 * Len(segs) + 2
    IN IF LastMod.kind = "Set" THEN setCalls(b.heap, b.val, segs, fuel)
       ELSE removeCalls(b.heap, b.val, segs, fuel)

\* every call has fewer segments than the call before it, but for the call
\* that set makes on nil, which has as many and is on a map or a slice
CallsDescend ==
    (Ran /\ pc # "idle" /\ LastParse.err = NoErr) =>
        LET calls == LastCalls
        IN /\ \A k \in 1..Len(calls) : calls[k].t # "unfinished"
           /\ calls[1].n = Len(LastSegments)
           /\ \A k \in 1..(Len(calls) - 1) :
                 \/ calls[k + 1].n < calls[k].n
                 \/ /\ LastMod.kind = "Set"
                    /\ calls[k].t = "nil"
                    /\ calls[k + 1].n = calls[k].n
                    /\ calls[k + 1].t \in {"map", "slice"}

\* an iteration of the loop of parseJSONPath that goes on leaves less text
LoopShortens ==
    (ppc = "loop" /\ ppc' = "loop") => Len(toParse') < Len(toParse)

\* C17: every operation terminates: each iteration of the loop of
\* parseJSONPath leaves strictly less text to parse, remove calls itself with
\* strictly fewer segments, and set calls itself with strictly fewer segments
\* or, on nil, once with the same segments on a container it made, which a
\* container case then matches.
C17_Terminates == []CallsDescend /\ [][LoopShortens]_vars

\* a Set made two containers, and so called set on nil with segments left
\* twice
C17_Witness ==
    /\ RanSet /\ Succeeded
    /\ LET calls == LastCalls
       IN \E j, k \in 1..Len(calls) :
             /\ j < k
             /\ calls[j].t = "nil" /\ calls[j].n > 0
             /\ calls[k].t = "nil" /\ calls[k].n > 0

====
